---- MODULE Spec2Model ----
(***************************************************************************)
(* Verification model of pbanos/botanic: the task queue (in-memory ring    *)
(* buffer and redis-backed), the node store and the growth driver          *)
(* (Seed / Work / workTask / BranchOut / WaitFor).                         *)
(*                                                                         *)
(* Go slices are 0-indexed, TLA+ sequences 1-indexed: slice element i is   *)
(* sequence element i+1.                                                   *)
(***************************************************************************)
EXTENDS Integers, Sequences, FiniteSets, TLC

(***************************************************************************)
(* Bounds of the model.                                                    *)
(***************************************************************************)
\* ids a caller of the queue API may push (queue-level specification)
MaxTaskID == 2
\* cap on the length of the in-memory pending buffer (queue-level)
MaxPending == 3

TaskIDs == 1..MaxTaskID

\* task ids in the redis queue, the root task being 1 (queue-level)
MaxRTaskID == 1

RTaskIDs == 1..MaxRTaskID

\* workers on the redis queue (queue-level)
NRWorkers == 2

\* redisq.go: const lockAttempts
lockAttempts == 5

\* workers of a growth run (grow command: config.concurrency)
NWorkers == 2
\* features available to the root task (growth)
NFeatures == 2
\* features available to the root task (growth from a fixed dataset)
NFixedFeatures == 3
\* most subsets a partition splits a dataset into (growth)
Branch == 2
\* values a sample may give a feature: the strings and the float64 numbers
\* 1..MaxValue (prediction)
MaxValue == 2
\* most children of a node of a tree handed to Predict (prediction)
MaxSubtrees == 3
\* concurrent calls of Predict on one tree (prediction)
NPredictors == 2
\* most samples of a dataset handed to Test (testing)
MaxSamples == 2
\* float64 numbers from one number of six decimals to the next (json)
UnitsPerMicro == 3
\* most Dataset instances: the one built from the input and its refinements
\* (dataset)
MaxDatasets == 3
\* goroutines calling one NodeStore (node store)
NClients == 2
\* the ids a node may get: what randString may return, and the values
\* memoryNodeStore.nextID may take (node store)
MaxNodeID == 2
\* most calls of Create by one goroutine (node store)
MaxCreates == 2
\* goroutines calling withLock / withRLock on one mutex (lock)
NCallers == 2
\* most calls of withLock / withRLock by one goroutine (lock)
MaxLockCalls == 2
\* most samples of a dataset handed to the partitioner (partition)
MaxPartitionSamples == 3

Workers == 1..NWorkers

VARIABLES
    backend,      \* which queue.Queue implementation is under test
    mq,           \* the memQueue struct
    rdata,        \* redis: ids with a "<id>:task:<t>:data" key
    rpending,     \* redis: the "<id>:pending" set
    rrunning,     \* redis: the "<id>:running" set
    rmark,        \* redis: ids with a "<id>:task:<t>:running" mark
    rlock,        \* redis: "<id>:task:<t>:lock", the holder's token or 0
    rpc,          \* redis: where each process is in its call
    rarg,         \* redis: the task id the current call works on
    rheld,        \* redis: the task a worker pulled and is working on
    rscan,        \* redis: what is left of the SScan page being iterated
    ratt,         \* redis: additionalAttempts left in withLockFor
    pushed,       \* history: ids for which Push returned nil
    completed,    \* history: ids for which Complete returned nil
    avail,        \* history: ids made pending and not returned by Pull since
    ret,          \* the call that returned in the last step (or NoRet)
    wk,           \* growth: the locals of each worker goroutine
    mpc,          \* growth: where the grow command's goroutine is
    ctxDone,      \* growth: the grow command's ctx has been cancelled
    nodes,        \* growth: memoryNodeStore.nodes
    nextID,       \* growth: memoryNodeStore.nextID
    farr,         \* growth: the backing arrays of the AvailableFeatures slices
    tree,         \* growth: the tree Seed returned (its RootID)
    trainingSet,  \* growth: the dataset the grow command hands to Seed
    sample,       \* prediction: the feature.Sample handed to Predict
    pr,           \* prediction: the locals and the result of Tree.Predict
    prs,          \* prediction: the locals of each of several Predict calls
    testSet,      \* testing: the samples of the dataset handed to Test
    probs,        \* testing: the probabilities of each node's Prediction
    tst,          \* testing: the locals and the result of Tree.Test
    doc,          \* json: the document WriteJSONTree wrote (as later edited)
    rd,           \* json: the locals and the result of ReadJSONTree
    rstore,       \* json: the nodes of the node store ReadJSONTree fills
    rtree,        \* json: the tree ReadJSONTree fills (RootID, Label)
    crit,         \* criterion: the feature.Criterion SatisfiedBy is called on
    csat,         \* criterion: where the call is and the (bool, error) it returned
    dsets,        \* dataset: the Dataset instances built so far
    dcall,        \* dataset: the last call on a Dataset and what it returned
    store,        \* node store: the NodeStore under test (memory or redis)
    cl,           \* node store: the call each client goroutine is in, and its result
    live,         \* node store: nodes Create returned nil for, not deleted or replaced since
    taskMaxRun,   \* redis: the taskMaxRun handed to redisq.New
    mu,           \* lock: the sync.RWMutex (who holds it for writing, who for reading)
    lcalls,       \* lock: the call of withLock / withRLock each goroutine is in
    helper,       \* lock: the helper goroutine of each call
    cctx,         \* lock: whether the ctx of each calling goroutine is done
    stAvailableFeatures, \* shuffle: the array shared by the tasks of one partition
    pushedFeatures, \* shuffle: that array as it was when the tasks were pushed
    shuf,         \* shuffle: where each worker is in shuffleFeatures on its task
    pin,          \* partition: the dataset, the available values of the discrete feature and the pruner of the calls
    partCall      \* partition: the last call of NewDiscretePartition or NewContinuousPartition and what it returned

memVars == <<mq>>

redisVars == <<rdata, rpending, rrunning, rmark, rlock, rpc, rarg, rheld,
               rscan, ratt>>

\* state of the library functions exercised on their own
testVars == <<testSet, probs, tst>>

jsonVars == <<doc, rd, rstore, rtree>>

critVars == <<crit, csat>>

datasetVars == <<dsets, dcall>>

storeVars == <<store, cl, live>>

confVars == <<taskMaxRun>>

lockVars == <<mu, lcalls, helper, cctx>>

shuffleVars == <<stAvailableFeatures, pushedFeatures, shuf>>

partitionVars == <<pin, partCall>>

libVars == <<prs, testVars, jsonVars, critVars, datasetVars, storeVars, confVars, lockVars, shuffleVars, partitionVars>>

predictVars == <<sample, pr, libVars>>

growVars == <<wk, mpc, ctxDone, nodes, nextID, farr, tree, trainingSet,
              predictVars>>

vars == <<backend, mq, rdata, rpending, rrunning, rmark, rlock, rpc, rarg,
          rheld, rscan, ratt, pushed, completed, avail, ret, wk, mpc, ctxDone,
          nodes, nextID, farr, tree, trainingSet, sample, pr, prs,
          testSet, probs, tst,
          doc, rd, rstore, rtree,
          crit, csat,
          dsets, dcall,
          store, cl, live,
          taskMaxRun,
          mu, lcalls, helper, cctx,
          stAvailableFeatures, pushedFeatures, shuf,
          pin, partCall>>

(***************************************************************************)
(* queue.Task: the node id, the dataset and the list of available features *)
(* (held as a reference to a backing array, see BranchOut).  A nil *Task   *)
(* is NilTask.                                                             *)
(***************************************************************************)
NilTask == [ID |-> 0, Dataset |-> "", AF |-> 0]

Task(id, ds, af) == [ID |-> id, Dataset |-> ds, AF |-> af]

\* the value of a call that returned in this step
Ret(op, id, err, p, r) == [op |-> op, id |-> id, err |-> err, p |-> p, r |-> r]

NoRet == Ret("none", 0, FALSE, 0, 0)

\* the largest finite float64 of the model, in units of 1 / UnitsPerMicro
\* of a millionth
MaxFloat == MaxValue * UnitsPerMicro

\* float64 infinities: a float64 of the model is one of 0..MaxFloat, -Inf
\* or +Inf
PosInf == MaxFloat + 1

NegInf == 0 - PosInf

\* math.IsInf(x, 0)
IsInf(x) == x = PosInf \/ x = NegInf

\* feature.Criterion: nil, a discrete criterion (feature is value), a
\* continuous criterion (a <= feature < b) or the undefined criterion of a
\* feature
NilCriterion == [kind |-> "nil", feature |-> 0, value |-> 0, a |-> 0, b |-> 0]

NewDiscreteCriterion(f, value) ==
    [kind |-> "discrete", feature |-> f, value |-> value, a |-> 0, b |-> 0]

NewContinuousCriterion(f, a, b) ==
    [kind |-> "continuous", feature |-> f, value |-> 0, a |-> a, b |-> b]

NewUndefinedCriterion(f) ==
    [kind |-> "undefined", feature |-> f, value |-> 0, a |-> 0, b |-> 0]

\* tree.Node as held by the node store (Prediction: whether it is non-nil;
\* SubtreeFeature: 0 for nil)
NewNode(parent, fc) ==
    [ParentID |-> parent, SubtreeIDs |-> <<>>, Prediction |-> FALSE,
     FeatureCriterion |-> fc, SubtreeFeature |-> 0]

NoNodes == [i \in {} |-> NewNode(0, NilCriterion)]

\* a tree.Tree: the id of its root node (0 for "")
NewTree(rootID) == [RootID |-> rootID]

\* the value a feature.Sample gives a feature: nil, a string, a float64, or
\* an error of ValueFor
NilValue == [type |-> "nil", v |-> 0]

SampleValues ==
    {NilValue} \cup [type : {"string", "float64"}, v : 1..MaxValue]
               \cup {[type |-> "error", v |-> 0]}

\* no sample (no prediction under way)
NoSample == <<>>

\* Tree.Predict's locals and result: where it is (pc), the node n, whether
\* a prediction was returned, the error returned ("" for nil) and the
\* feature the error names
NoPredict ==
    [pc |-> "off", n |-> 0, prediction |-> FALSE, err |-> "", feature |-> 0]

\* Tree.Test's locals and results: where it is (pc), the position in
\* samples, result before the division (correct), errCount, count, the
\* float64 returned (num / den, 0 / 0 being NaN), the int returned, the
\* error returned ("" for nil) and, for each sample gone through, whether
\* Predict gave a prediction and the value PredictedValue returned
\* (picked)
NoTest ==
    [pc |-> "off", i |-> 0, correct |-> 0, errCount |-> 0, count |-> 0,
     num |-> 0, den |-> 1, unpredictable |-> 0, err |-> "", picked |-> <<>>]

\* concurrent callers of Tree.Predict
Predictors == 1..NPredictors

\* the JSON document of a tree: its rootID, its label (a feature name, 0
\* for none) and its nodes array
NoDoc == [rootID |-> 0, label |-> 0, nodes |-> <<>>]

\* ReadJSONTree's locals and result: where it is (pc), the position in
\* jt.Nodes and the error returned ("" for nil)
NoRead == [pc |-> "off", i |-> 0, err |-> ""]

\* the tree.Tree handed to ReadJSONTree: no root id, no label
EmptyTree == [RootID |-> 0, Label |-> 0]

\* Criterion.SatisfiedBy's call: where it is (pc) and what it returned
NoSat == [pc |-> "off", ok |-> FALSE, err |-> FALSE]

\* a call on a Dataset: the method, the instance, the feature or criterion
\* handed over, the instance, number or entropy returned
NoCall == [op |-> "none", d |-> 0, f |-> 0, fc |-> NilCriterion, r |-> 0, h |-> {}]

\* a NodeStore: the implementation, the nodes held under their ids (for
\* each id, which node), and memoryNodeStore's nextID and lock (the
\* goroutine holding it for writing, those holding it for reading)
NoStore == [impl |-> "none", nodes |-> <<>>, nextID |-> 0, w |-> 0, r |-> {}]

\* the taskMaxRun durations handed to redisq.New: zero, and 1 for any
\* positive duration
TaskMaxRuns == {0, 1}

\* a sync.RWMutex nobody holds: w is the holder of the write lock (<<>> for
\* none), r the holders of the read lock
NoMutex == [w |-> <<>>, r |-> {}]





\* nothing of the library is running, but for the part g, whose state the
\* caller sets
IdleLib(g) ==
    /\ IF g = "conc" THEN TRUE
       ELSE prs = [c \in Predictors |-> NoPredict]
    /\ IF g = "test" THEN TRUE
       ELSE testSet = <<>> /\ probs = <<>> /\ tst = NoTest
    /\ IF g = "json" THEN TRUE
       ELSE doc = NoDoc /\ rd = NoRead /\ rstore = NoNodes /\ rtree = EmptyTree
    /\ IF g = "criterion" THEN TRUE
       ELSE crit = NilCriterion /\ csat = NoSat
    /\ IF g = "dataset" THEN TRUE
       ELSE dsets = <<>> /\ dcall = NoCall
    /\ IF g = "store" THEN TRUE
       ELSE store = NoStore /\ cl = <<>> /\ live = {}
    /\ IF g = "maxrun" THEN TRUE
       ELSE taskMaxRun = 1
    /\ IF g = "lock" THEN TRUE
       ELSE mu = NoMutex /\ lcalls = <<>> /\ helper = <<>> /\ cctx = <<>>
    /\ IF g = "shuffle" THEN TRUE
       ELSE stAvailableFeatures = <<>> /\ pushedFeatures = <<>> /\ shuf = <<>>
    /\ IF g = "partition" THEN TRUE
       ELSE pin = <<>> /\ partCall = <<>>

\* nothing of the library is running
InitLib == IdleLib("none")

\* the features slice handed to Seed
Features == [i \in 1..NFeatures |-> i]

\* the locals of a worker goroutine: where it is (pc), the task it pulled,
\* the tasks BranchOut is building / workTask is pushing, the error workTask
\* is returning ("" for nil), BranchOut's featureIndex, the subsets of the
\* selected partition still without a node (n), the array behind
\* stAvailableFeatures (stAF) and whether mctx (mergeCtxCancel) is done
NoWk ==
    [pc |-> "unborn", task |-> NilTask, tasks |-> <<>>, err |-> "",
     featureIndex |-> 0, n |-> 0, stAF |-> 0, mctx |-> FALSE]

\* faulty variant of RemoveAt: the selected feature stays available
RemoveNone(s, i) == s

RemoveAt(s, i) == SubSeq(s, 1, i - 1) \o SubSeq(s, i + 1, Len(s))

\* shuffleFeatures: the orders the in-place shuffle can leave the slice in.
\* Each round swaps the last element with a random one and goes on with the
\* slice but its last element.
RECURSIVE shuffleFeatures(_)
shuffleFeatures(features) ==
    IF Len(features) = 0
    THEN {<<>>}
    ELSE LET n == Len(features)
         IN  UNION {
               {Append(r, features[randIndex]) :
                  r \in shuffleFeatures(
                          SubSeq([features EXCEPT ![randIndex] = features[n]],
                                 1, n - 1))}
               : randIndex \in 1..n}

(***************************************************************************)
(* memQueue (in-memory queue).                                             *)
(***************************************************************************)
EmptyMap == [i \in {} |-> NilTask]

MapPut(m, k, v) == [i \in (DOMAIN m) \cup {k} |-> IF i = k THEN v ELSE m[i]]

MapDel(m, k) == [i \in (DOMAIN m) \ {k} |-> m[i]]

\* queue.New
NewMemQueue ==
    [pendingTasks |-> <<>>, head |-> 0, tail |-> 0, pending |-> 0,
     runningTasks |-> EmptyMap]

\* faulty variant of reorder: the buffer is not rotated before it grows
ReorderNone(q) == q

\* memQueue.reorder
reorder(q) ==
    IF q.head = 0
    THEN q
    ELSE [q EXCEPT
            !.pendingTasks =
                SubSeq(q.pendingTasks, q.head + 1, Len(q.pendingTasks))
                \o SubSeq(q.pendingTasks, 1, q.head),
            !.head = 0,
            !.tail = q.pending % Len(q.pendingTasks)]

\* memQueue.push
push(q, t) ==
    IF q.pending = Len(q.pendingTasks)
    THEN LET r == reorder(q)
         IN  [r EXCEPT !.pendingTasks = Append(r.pendingTasks, t),
                       !.pending = r.pending + 1]
    ELSE [q EXCEPT !.pendingTasks[q.tail + 1] = t,
                   !.tail = (q.tail + 1) % Len(q.pendingTasks),
                   !.pending = q.pending + 1]

\* memQueue.Push, the critical section
MemPush(q, t) == push(q, t)

\* the task memQueue.Pull returns (NilTask when nothing is pending)
MemPullTask(q) ==
    IF q.pending = 0 THEN NilTask ELSE q.pendingTasks[q.head + 1]

\* faulty variant of MemPull: the task is not registered as running
MemPullNoRunning(q) ==
    IF q.pending = 0
    THEN q
    ELSE [q EXCEPT !.pending = q.pending - 1,
                   !.pendingTasks[q.head + 1] = NilTask,
                   !.head = (q.head + 1) % Len(q.pendingTasks)]

\* memQueue.Pull, the critical section
MemPull(q) ==
    IF q.pending = 0
    THEN q
    ELSE LET task == q.pendingTasks[q.head + 1]
         IN  [q EXCEPT !.pending = q.pending - 1,
                       !.pendingTasks[q.head + 1] = NilTask,
                       !.head = (q.head + 1) % Len(q.pendingTasks),
                       !.runningTasks = MapPut(q.runningTasks, task.ID, task)]

\* faulty variant of MemDrop: the task is not deleted from runningTasks
MemDropKeepRunning(q, id) ==
    IF id \notin DOMAIN q.runningTasks
    THEN q
    ELSE push(q, q.runningTasks[id])

\* memQueue.Drop, the critical section
MemDrop(q, id) ==
    IF id \notin DOMAIN q.runningTasks
    THEN q
    ELSE push([q EXCEPT !.runningTasks = MapDel(q.runningTasks, id)],
              q.runningTasks[id])

\* memQueue.Complete, the critical section
MemComplete(q, id) == [q EXCEPT !.runningTasks = MapDel(q.runningTasks, id)]

\* faulty variant of MemCount: running tasks are not counted
MemCountPendingOnly(q) == <<q.pending, 0>>

\* memQueue.Count: <<pending, running>>, read under the read lock
MemCount(q) == <<q.pending, Cardinality(DOMAIN q.runningTasks)>>

\* the ids held in the pending buffer, slot by slot (0 for an empty slot)
MemPendingSlots(q) == [i \in 1..Len(q.pendingTasks) |-> q.pendingTasks[i].ID]

MemPendingIDs(q) ==
    {q.pendingTasks[i].ID : i \in 1..Len(q.pendingTasks)} \ {0}

MemRunningIDs(q) == DOMAIN q.runningTasks

(***************************************************************************)
(* Queue-level specification, in-memory backend: any caller may call any   *)
(* method at any time; every method runs under mq.lock, so a call is one   *)
(* step.                                                                   *)
(***************************************************************************)
QPushMem(id) ==
    /\ backend = "mem"
    /\ mq.pending < MaxPending
    /\ mq' = MemPush(mq, Task(id, "any", 0))
    /\ pushed' = pushed \cup {id}
    /\ ret' = Ret("Push", id, FALSE, 0, 0)
    /\ UNCHANGED <<growVars, backend, completed, avail, redisVars>>

QPullMem ==
    /\ backend = "mem"
    /\ mq' = MemPull(mq)
    /\ ret' = Ret("Pull", MemPullTask(mq).ID, FALSE, 0, 0)
    /\ UNCHANGED <<growVars, backend, pushed, completed, avail, redisVars>>

QDropMem(id) ==
    /\ backend = "mem"
    /\ mq' = MemDrop(mq, id)
    /\ ret' = Ret("Drop", id, FALSE, 0, 0)
    /\ UNCHANGED <<growVars, backend, pushed, completed, avail, redisVars>>

QCompleteMem(id) ==
    /\ backend = "mem"
    /\ mq' = MemComplete(mq, id)
    /\ completed' = completed \cup {id}
    /\ ret' = Ret("Complete", id, FALSE, 0, 0)
    /\ UNCHANGED <<growVars, backend, pushed, avail, redisVars>>

QCountMem ==
    /\ backend = "mem"
    /\ ret' = Ret("Count", 0, FALSE, MemCount(mq)[1], MemCount(mq)[2])
    /\ UNCHANGED <<growVars, backend, mq, pushed, completed, avail,
                   redisVars>>

NextMem ==
    \/ \E id \in TaskIDs : QPushMem(id)
    \/ QPullMem
    \/ \E id \in TaskIDs : QDropMem(id)
    \/ \E id \in TaskIDs : QCompleteMem(id)
    \/ QCountMem

(***************************************************************************)
(* redisQ (key-value queue).  Every redis command is one step.  The main   *)
(* goroutine pushes the root task (Seed) and starts the workers; workers   *)
(* follow Work and workTask: Pull, Push of children, Complete, Drop; the   *)
(* reaper is dropTimedOutTasks, started by redisq.New.  Lock keys and      *)
(* running marks carry a TTL and may expire at any time.                   *)
(***************************************************************************)
RWorkers == 1..NRWorkers

Reaper == NRWorkers + 1

\* the goroutine of the grow command, which calls Seed and starts the workers
Main == NRWorkers + 2

RProcs == RWorkers \cup {Reaper, Main}

\* faulty variant of ReleaseLock: DEL without comparing the token
ReleaseAnyLock(lk, id, p) == [lk EXCEPT ![id] = 0]

\* the lock release of withLockFor: lockReleaseScript
ReleaseLock(lk, id, p) == IF lk[id] = p THEN [lk EXCEPT ![id] = 0] ELSE lk

\* A process that failed to take the lock sleeps for the lock's remaining
\* TTL (plus jitter) before it tries again: it retries once the lock it
\* met has been released or has expired.
Wake(pcs, args, id) ==
    [p \in DOMAIN pcs |->
        IF args[p] = id /\ pcs[p] = "comp_wait" THEN "comp_lock"
        ELSE IF args[p] = id /\ pcs[p] = "drop_wait" THEN "drop_lock"
        ELSE pcs[p]]

\* the release at the end of withLockFor by process p, which moves on to pc
Unlock(p, id, next) ==
    /\ rlock' = ReleaseLock(rlock, id, p)
    /\ rpc' = IF rlock[id] = p
              THEN Wake([rpc EXCEPT ![p] = next], rarg, id)
              ELSE [rpc EXCEPT ![p] = next]

\* withLockFor: SetNX on the lock key with att additional attempts left; on
\* failure with attempts left, sleep and retry; with none left, "could not
\* acquire lock: already taken" (the caller goes on at failed)
TryLock(p, id, att, locked, wait, failed) ==
    IF rlock[id] = 0
    THEN /\ rlock' = [rlock EXCEPT ![id] = p]
         /\ rpc' = [rpc EXCEPT ![p] = locked]
         /\ ratt' = [ratt EXCEPT ![p] = 0]
    ELSE /\ UNCHANGED rlock
         /\ IF att > 0
            THEN /\ ratt' = [ratt EXCEPT ![p] = att - 1]
                 /\ rpc' = [rpc EXCEPT ![p] = wait]
            ELSE /\ rpc' = [rpc EXCEPT ![p] = failed]
                 /\ ratt' = [ratt EXCEPT ![p] =
                               IF failed = "drop_lock" THEN lockAttempts
                               ELSE 0]

\* ---- redisQ.Push ----
\* where a process goes when its Push has returned nil / an error: Seed
\* returns to the grow command, workTask goes on or returns to its deferred
\* Drop
AfterPush(p, ok) ==
    IF p = Main THEN (IF ok THEN "seeded" ELSE "exit")
    ELSE (IF ok THEN "work" ELSE "drop_lock")

\* once Seed has returned the grow command starts the workers
StartWorkers(pcs, p, ok) ==
    [q \in DOMAIN pcs |->
        IF p = Main /\ ok /\ pcs[q] = "unborn" THEN "idle" ELSE pcs[q]]

\* Seed pushes the root task, workTask pushes a child task c: SetNX on the
\* data key
RPushSetNX(p, c) ==
    /\ backend = "redis" /\ rpc[p] \in {"seed", "work"}
    /\ rarg' = [rarg EXCEPT ![p] = IF c \in rdata THEN 0 ELSE c]
    /\ IF c \in rdata
       THEN \* the key already exists: Push returns an error
            /\ rpc' = [rpc EXCEPT ![p] = AfterPush(p, FALSE)]
            /\ ratt' = [ratt EXCEPT ![p] = IF p = Main THEN 0 ELSE lockAttempts]
            /\ UNCHANGED rdata
       ELSE /\ rdata' = rdata \cup {c}
            /\ rpc' = [rpc EXCEPT ![p] = "push_sadd"]
            /\ UNCHANGED ratt
    /\ UNCHANGED <<growVars, backend, mq, ret, rpending, rrunning, rmark,
                   rlock, rheld, rscan, pushed, completed, avail>>

\* SAdd to the pending set; when nothing was added the data key is deleted
\* and Push returns an error
RPushSAdd(p) ==
    /\ backend = "redis" /\ rpc[p] = "push_sadd"
    /\ IF rarg[p] \notin rpending
       THEN /\ rpending' = rpending \cup {rarg[p]}
            /\ pushed' = pushed \cup {rarg[p]}
            /\ avail' = avail \cup {rarg[p]}
            /\ rpc' = StartWorkers([rpc EXCEPT ![p] = AfterPush(p, TRUE)],
                                   p, TRUE)
            /\ UNCHANGED <<rdata, ratt>>
       ELSE /\ rdata' = rdata \ {rarg[p]}
            /\ rpc' = [rpc EXCEPT ![p] = AfterPush(p, FALSE)]
            /\ ratt' = [ratt EXCEPT ![p] = IF p = Main THEN 0 ELSE lockAttempts]
            /\ UNCHANGED <<rpending, pushed, avail>>
    /\ rarg' = [rarg EXCEPT ![p] = 0]
    /\ UNCHANGED <<growVars, backend, mq, ret, rrunning, rmark, rlock, rheld,
                   rscan, completed>>

\* ---- redisQ.Pull ----
\* SScan of the pending set: the page the iterator walks
RPullScan(w) ==
    /\ backend = "redis" /\ rpc[w] = "idle"
    /\ rscan' = [rscan EXCEPT ![w] = rpending]
    /\ rpc' = [rpc EXCEPT ![w] = "pull_iter"]
    /\ UNCHANGED <<growVars, backend, mq, ret, rdata, rpending, rrunning,
                   rmark, rlock, rarg, rheld, ratt, pushed, completed, avail>>

\* iterator exhausted: Pull returns nil, nil, nil, nil
RPullNone(w) ==
    /\ backend = "redis" /\ rpc[w] = "pull_iter" /\ rscan[w] = {}
    /\ rpc' = [rpc EXCEPT ![w] = "idle"]
    /\ rarg' = [rarg EXCEPT ![w] = 0]
    /\ UNCHANGED <<growVars, backend, mq, ret, rdata, rpending, rrunning,
                   rmark, rlock, rheld, rscan, ratt, pushed, completed,
                   avail>>

\* iter.Next and withLockFor(ctx, taskKeyPrefix, 0, ...): one SetNX, no retry
RPullLock(w) ==
    /\ backend = "redis" /\ rpc[w] = "pull_iter"
    /\ \E id \in rscan[w] :
        /\ rscan' = [rscan EXCEPT ![w] = rscan[w] \ {id}]
        /\ IF rlock[id] = 0
           THEN /\ rlock' = [rlock EXCEPT ![id] = w]
                /\ rpc' = [rpc EXCEPT ![w] = "pull_mark"]
                /\ rarg' = [rarg EXCEPT ![w] = id]
           ELSE UNCHANGED <<rlock, rpc, rarg>>
    /\ UNCHANGED <<growVars, backend, mq, ret, rdata, rpending, rrunning,
                   rmark, rheld, ratt, pushed, completed, avail>>

\* SetNX on the running mark
RPullMark(w) ==
    /\ backend = "redis" /\ rpc[w] = "pull_mark"
    /\ IF rarg[w] \in rmark
       THEN /\ rpc' = [rpc EXCEPT ![w] = "pull_unlock_fail"]
            /\ UNCHANGED rmark
       ELSE /\ rmark' = rmark \cup {rarg[w]}
            /\ rpc' = [rpc EXCEPT ![w] = "pull_move"]
    /\ UNCHANGED <<growVars, backend, mq, ret, rdata, rpending, rrunning,
                   rlock, rarg, rheld, rscan, ratt, pushed, completed, avail>>

\* SMove pending -> running; the reply (moved or not) is discarded
RPullMove(w) ==
    /\ backend = "redis" /\ rpc[w] = "pull_move"
    /\ IF rarg[w] \in rpending
       THEN /\ rpending' = rpending \ {rarg[w]}
            /\ rrunning' = rrunning \cup {rarg[w]}
       ELSE UNCHANGED <<rpending, rrunning>>
    /\ rpc' = [rpc EXCEPT ![w] = "pull_unlock"]
    /\ UNCHANGED <<growVars, backend, mq, ret, rdata, rmark, rlock, rarg,
                   rheld, rscan, ratt, pushed, completed, avail>>

\* lock released after the mark could not be set: on to the next id
RPullUnlockFail(w) ==
    /\ backend = "redis" /\ rpc[w] = "pull_unlock_fail"
    /\ Unlock(w, rarg[w], "pull_iter")
    /\ rarg' = [rarg EXCEPT ![w] = 0]
    /\ UNCHANGED <<growVars, backend, mq, ret, rdata, rpending, rrunning,
                   rmark, rheld, rscan, ratt, pushed, completed, avail>>

\* lock released after the critical section returned nil; Get of the data
\* key (never deleted once its Push succeeded) and Decode: Pull returns the
\* task
RPullReturn(w) ==
    /\ backend = "redis" /\ rpc[w] = "pull_unlock"
    /\ rarg[w] \in rdata
    /\ Unlock(w, rarg[w], "work")
    /\ rheld' = [rheld EXCEPT ![w] = rarg[w]]
    /\ rarg' = [rarg EXCEPT ![w] = 0]
    /\ rscan' = [rscan EXCEPT ![w] = {}]
    /\ avail' = avail \ {rarg[w]}
    /\ UNCHANGED <<growVars, backend, mq, ret, rdata, rpending, rrunning,
                   rmark, ratt, pushed, completed>>

\* ---- redisQ.Complete ----
\* workTask, all children pushed: Complete(task.ID()), which starts with
\* withLockFor(ctx, tKeyPrefix, lockAttempts, ...).  When no attempt is left
\* Complete returns the error and workTask's deferred Drop runs.
RCompleteCall(w) ==
    /\ backend = "redis" /\ rpc[w] = "work"
    /\ rarg' = [rarg EXCEPT ![w] = rheld[w]]
    /\ TryLock(w, rheld[w], lockAttempts, "comp_srem", "comp_wait", "drop_lock")
    /\ UNCHANGED <<growVars, backend, mq, ret, rdata, rpending, rrunning,
                   rmark, rheld, rscan, pushed, completed, avail>>

\* a further attempt of Complete's withLockFor
RCompleteLock(w) ==
    /\ backend = "redis" /\ rpc[w] = "comp_lock"
    /\ TryLock(w, rarg[w], ratt[w], "comp_srem", "comp_wait", "drop_lock")
    /\ UNCHANGED <<growVars, backend, mq, ret, rdata, rpending, rrunning,
                   rmark, rarg, rheld, rscan, pushed, completed, avail>>

\* SRem from the running set; count == 0 returns nil at once
RCompleteSRem(w) ==
    /\ backend = "redis" /\ rpc[w] = "comp_srem"
    /\ IF rarg[w] \in rrunning
       THEN /\ rrunning' = rrunning \ {rarg[w]}
            /\ completed' = completed \cup {rarg[w]}
            /\ rpc' = [rpc EXCEPT ![w] = "comp_delmark"]
       ELSE /\ rpc' = [rpc EXCEPT ![w] = "comp_unlock"]
            /\ UNCHANGED <<rrunning, completed>>
    /\ UNCHANGED <<growVars, backend, mq, ret, rdata, rpending, rmark, rlock,
                   rarg, rheld, rscan, ratt, pushed, avail>>

\* Del of the running mark
RCompleteDelMark(w) ==
    /\ backend = "redis" /\ rpc[w] = "comp_delmark"
    /\ rmark' = rmark \ {rarg[w]}
    /\ rpc' = [rpc EXCEPT ![w] = "comp_unlock"]
    /\ UNCHANGED <<growVars, backend, mq, ret, rdata, rpending, rrunning,
                   rlock, rarg, rheld, rscan, ratt, pushed, completed, avail>>

\* lock released; Complete returns nil; workTask's deferred Drop is next
RCompleteReturn(w) ==
    /\ backend = "redis" /\ rpc[w] = "comp_unlock"
    /\ Unlock(w, rarg[w], "drop_lock")
    /\ ratt' = [ratt EXCEPT ![w] = lockAttempts]
    /\ completed' = completed \cup {rarg[w]}
    /\ UNCHANGED <<growVars, backend, mq, ret, rdata, rpending, rrunning,
                   rmark, rarg, rheld, rscan, pushed, avail>>

\* ---- redisQ.Drop ----
\* where a process goes when its Drop has returned (its callers ignore
\* the error of Drop)
AfterDrop(p) == IF p = Reaper THEN "reap_iter" ELSE "idle"

\* the task Drop works on: the worker's task, or the reaper's timed out one
DropID(p) == IF p = Reaper THEN rarg[p] ELSE rheld[p]

\* the first attempt (work: workTask failed in BranchOut, only the deferred
\* Drop runs) or a further attempt of Drop's withLockFor
RDropLock(p) ==
    /\ backend = "redis" /\ rpc[p] \in {"work", "drop_lock"}
    /\ TryLock(p, DropID(p), IF rpc[p] = "work" THEN lockAttempts ELSE ratt[p],
               "drop_move", "drop_wait", AfterDrop(p))
    /\ rarg' = [rarg EXCEPT ![p] =
                    IF rpc'[p] = AfterDrop(p) THEN 0 ELSE DropID(p)]
    /\ rheld' = IF rpc'[p] = AfterDrop(p) THEN [rheld EXCEPT ![p] = 0]
                ELSE rheld
    /\ UNCHANGED <<growVars, backend, mq, ret, rdata, rpending, rrunning,
                   rmark, rscan, pushed, completed, avail>>

\* SMove running -> pending; not moved returns nil at once
RDropMove(p) ==
    /\ backend = "redis" /\ rpc[p] = "drop_move"
    /\ IF rarg[p] \in rrunning
       THEN /\ rrunning' = rrunning \ {rarg[p]}
            /\ rpending' = rpending \cup {rarg[p]}
            /\ avail' = avail \cup {rarg[p]}
            /\ rpc' = [rpc EXCEPT ![p] = "drop_delmark"]
       ELSE /\ rpc' = [rpc EXCEPT ![p] = "drop_unlock_noop"]
            /\ UNCHANGED <<rrunning, rpending, avail>>
    /\ UNCHANGED <<growVars, backend, mq, ret, rdata, rmark, rlock, rarg,
                   rheld, rscan, ratt, pushed, completed>>

\* Del of the running mark
RDropDelMark(p) ==
    /\ backend = "redis" /\ rpc[p] = "drop_delmark"
    /\ rmark' = rmark \ {rarg[p]}
    /\ rpc' = [rpc EXCEPT ![p] = "drop_unlock"]
    /\ UNCHANGED <<growVars, backend, mq, ret, rdata, rpending, rrunning,
                   rlock, rarg, rheld, rscan, ratt, pushed, completed, avail>>

\* lock released; Drop returns nil
RDropReturn(p) ==
    /\ backend = "redis" /\ rpc[p] \in {"drop_unlock", "drop_unlock_noop"}
    /\ Unlock(p, rarg[p], AfterDrop(p))
    /\ rheld' = [rheld EXCEPT ![p] = 0]
    /\ rarg' = [rarg EXCEPT ![p] = 0]
    /\ UNCHANGED <<growVars, backend, mq, ret, rdata, rpending, rrunning,
                   rmark, rscan, ratt, pushed, completed, avail>>

\* ---- redisQ.Count ----
\* one EVAL returning both cardinalities
RedisCount == <<Cardinality(rpending), Cardinality(rrunning)>>

\* ---- redisQ.dropTimedOutTasks ----
\* SScan of the running set (at start, and again on every tick)
ReapScan ==
    /\ backend = "redis" /\ rpc[Reaper] = "reap_iter" /\ rscan[Reaper] = {}
    /\ rrunning # {}
    /\ rscan' = [rscan EXCEPT ![Reaper] = rrunning]
    /\ UNCHANGED <<growVars, backend, mq, ret, rdata, rpending, rrunning,
                   rmark, rlock, rpc, rarg, rheld, ratt, pushed, completed,
                   avail>>

\* iter.Next and withLockFor(rq.allTaskCtx, tID, 0, ...)
ReapLock ==
    /\ backend = "redis" /\ rpc[Reaper] = "reap_iter"
    /\ \E id \in rscan[Reaper] :
        /\ rscan' = [rscan EXCEPT ![Reaper] = rscan[Reaper] \ {id}]
        /\ IF rlock[id] = 0
           THEN /\ rlock' = [rlock EXCEPT ![id] = Reaper]
                /\ rpc' = [rpc EXCEPT ![Reaper] = "reap_exists"]
                /\ rarg' = [rarg EXCEPT ![Reaper] = id]
           ELSE UNCHANGED <<rlock, rpc, rarg>>
    /\ UNCHANGED <<growVars, backend, mq, ret, rdata, rpending, rrunning,
                   rmark, rheld, ratt, pushed, completed, avail>>

\* Exists on the running mark: timedOut = !exists
ReapExists ==
    /\ backend = "redis" /\ rpc[Reaper] = "reap_exists"
    /\ rpc' = [rpc EXCEPT ![Reaper] =
                  IF rarg[Reaper] \in rmark THEN "reap_unlock_live"
                  ELSE "reap_unlock_timedout"]
    /\ UNCHANGED <<growVars, backend, mq, ret, rdata, rpending, rrunning,
                   rmark, rlock, rarg, rheld, rscan, ratt, pushed, completed,
                   avail>>

\* lock released; a timed out task is dropped with rq.Drop
ReapUnlock ==
    /\ backend = "redis"
    /\ rpc[Reaper] \in {"reap_unlock_live", "reap_unlock_timedout"}
    /\ IF rpc[Reaper] = "reap_unlock_timedout"
       THEN /\ Unlock(Reaper, rarg[Reaper], "drop_lock")
            /\ ratt' = [ratt EXCEPT ![Reaper] = lockAttempts]
            /\ UNCHANGED rarg
       ELSE /\ Unlock(Reaper, rarg[Reaper], "reap_iter")
            /\ rarg' = [rarg EXCEPT ![Reaper] = 0]
            /\ UNCHANGED ratt
    /\ UNCHANGED <<growVars, backend, mq, ret, rdata, rpending, rrunning,
                   rmark, rheld, rscan, pushed, completed, avail>>

\* ---- key expiry ----
\* a lock key reaches its TTL (lockTTL)
ExpireLock(id) ==
    /\ backend = "redis" /\ rlock[id] # 0
    /\ rlock' = [rlock EXCEPT ![id] = 0]
    /\ rpc' = Wake(rpc, rarg, id)
    /\ UNCHANGED <<growVars, backend, mq, ret, rdata, rpending, rrunning,
                   rmark, rarg, rheld, rscan, ratt, pushed, completed, avail>>

\* a running mark reaches its TTL (taskMaxRun); a mark set with the zero
\* duration has no TTL
ExpireMark(id) ==
    /\ backend = "redis" /\ id \in rmark
    /\ taskMaxRun > 0
    /\ rmark' = rmark \ {id}
    /\ UNCHANGED <<growVars, backend, mq, ret, rdata, rpending, rrunning,
                   rlock, rpc, rarg, rheld, rscan, ratt, pushed, completed,
                   avail>>

NextRedis ==
    \/ \E p \in RWorkers \cup {Main}, c \in RTaskIDs :
        \* the id of a task is the id NodeStore.Create gave its node: fresh
        c = Cardinality(rdata) + 1 /\ RPushSetNX(p, c)
    \/ \E p \in RWorkers \cup {Main} : RPushSAdd(p)
    \/ \E w \in RWorkers :
        \/ RPullScan(w) \/ RPullNone(w) \/ RPullLock(w) \/ RPullMark(w)
        \/ RPullMove(w) \/ RPullUnlockFail(w) \/ RPullReturn(w)
        \/ RCompleteCall(w) \/ RCompleteLock(w)
        \/ RCompleteSRem(w) \/ RCompleteDelMark(w) \/ RCompleteReturn(w)
    \/ \E p \in RProcs :
        \/ RDropLock(p) \/ RDropMove(p) \/ RDropDelMark(p) \/ RDropReturn(p)
    \/ ReapScan \/ ReapLock \/ ReapExists \/ ReapUnlock
    \/ \E id \in RTaskIDs : ExpireLock(id) \/ ExpireMark(id)

(***************************************************************************)
(* Queue-level specification: one of the two backends, as chosen by        *)
(* growCmdConfig.Queue.                                                    *)
(***************************************************************************)
\* the redis keyspace and the processes working on it, before any call
\* the reaper goroutine started by New is at pc start
InitRedisAt(start) ==
    /\ rdata = {} /\ rpending = {} /\ rrunning = {} /\ rmark = {}
    /\ rlock = [id \in RTaskIDs |-> 0]
    /\ rpc = [p \in RProcs |->
                IF p = Reaper THEN start
                ELSE IF p = Main THEN "seed" ELSE "unborn"]
    /\ rarg = [p \in RProcs |-> 0]
    /\ rheld = [p \in RProcs |-> 0]
    /\ rscan = [p \in RProcs |-> {}]
    /\ ratt = [p \in RProcs |-> 0]

\* taskMaxRun > 0: the reaper has created its ticker and is about to scan
InitRedis == InitRedisAt("reap_iter")

Init ==
    /\ backend \in {"mem", "redis"}
    /\ mq = NewMemQueue
    /\ InitRedis
    /\ pushed = {} /\ completed = {} /\ avail = {}
    /\ ret = NoRet
    /\ wk = [w \in Workers |-> NoWk]
    /\ mpc = "off"
    /\ ctxDone = FALSE
    /\ nodes = NoNodes
    /\ nextID = 0
    /\ farr = [a \in {0} |-> Features]
    /\ tree = NewTree(0)
    /\ trainingSet = "any"
    /\ sample = NoSample
    /\ pr = NoPredict
    /\ InitLib

Next == NextMem \/ NextRedis

Spec == Init /\ [][Next]_vars

(***************************************************************************)
(* The redis queue from redisq.New on, for a zero and for a positive       *)
(* taskMaxRun.  New starts the reaper goroutine, whose first statement is  *)
(* time.NewTicker(rq.taskMaxRun / 2); NewTicker panics when its duration   *)
(* is not positive, and a panic in a goroutine ends the process.           *)
(***************************************************************************)
\* the process has ended: no goroutine takes another step
Panic == [p \in RProcs |-> "panic"]

\* dropTimedOutTasks: ticker := time.NewTicker(rq.taskMaxRun / 2)
ReapStart ==
    /\ backend = "redis" /\ rpc[Reaper] = "reap_start"
    /\ rpc' = IF taskMaxRun = 0 THEN Panic
              ELSE [rpc EXCEPT ![Reaper] = "reap_iter"]
    /\ UNCHANGED <<growVars, backend, mq, ret, rdata, rpending, rrunning,
                   rmark, rlock, rarg, rheld, rscan, ratt, pushed, completed,
                   avail>>

InitMaxRun ==
    /\ backend = "redis"
    /\ mq = NewMemQueue
    /\ InitRedisAt("reap_start")
    /\ pushed = {} /\ completed = {} /\ avail = {}
    /\ ret = NoRet
    /\ wk = [w \in Workers |-> NoWk]
    /\ mpc = "off"
    /\ ctxDone = FALSE
    /\ nodes = NoNodes
    /\ nextID = 0
    /\ farr = [a \in {0} |-> Features]
    /\ tree = NewTree(0)
    /\ trainingSet = "any"
    /\ sample = NoSample
    /\ pr = NoPredict
    /\ IdleLib("maxrun")
    /\ taskMaxRun \in TaskMaxRuns

NextMaxRun == NextRedis \/ ReapStart

SpecMaxRun == InitMaxRun /\ [][NextMaxRun]_vars

(***************************************************************************)
(* Growth run on the in-memory queue and node store (grow command): the    *)
(* main goroutine seeds the tree, starts the workers and waits in WaitFor; *)
(* every worker runs Work.  A step is one critical section of the queue or *)
(* of the node store, or one read/write of a shared features array.        *)
(***************************************************************************)
queueFrame == <<backend, redisVars, avail, ret, trainingSet, predictVars>>

growFrame == <<queueFrame, tree>>

SetWk(w, r) == wk' = [wk EXCEPT ![w] = r]

\* the pcs of workTask, where mctx is in use
InWorkTask ==
    {"bo_start", "bo_select", "bo_build", "bo_create", "bo_store", "push",
     "drop"}

\* ---- the training data ----
\* What BranchOut learns from a task's dataset.  Of the dataset "any" nothing
\* is known: every result is possible.  The dataset "full" holds samples of
\* several label values in which feature f yields a partition of Branch
\* subsets with information gain f; its proper subsets ("mixed") hold samples
\* of several label values that no feature separates.

\* the results sEntropy <= ps.MinimumEntropy may have
LowEntropy(ds) == IF ds = "any" THEN BOOLEAN ELSE {FALSE}

\* a nil *Partition
NilPartition == [n |-> 0, informationGain |-> 0]

\* the results partition(ctx, task.Dataset, f, t.Label, ps) may have: nil
\* when the pruner prunes it, or a partition of n tasks
partition(ds, f) ==
    IF ds = "full" THEN {[n |-> Branch, informationGain |-> f]}
    ELSE IF ds = "mixed" THEN {NilPartition}
    ELSE {NilPartition} \cup [n : 1..Branch, informationGain : 1..NFeatures]

\* the partitions of a dataset along the features of a slice
Partitions(ds, features) ==
    {parts \in [1..Len(features) ->
                   UNION {partition(ds, features[i]) : i \in 1..Len(features)}] :
        \A i \in 1..Len(features) : parts[i] \in partition(ds, features[i])}

\* the loop of BranchOut that selects the partition, from element i on:
\* <<selectedPartition, featureIndex>>
RECURSIVE selectPartition(_, _, _, _)
selectPartition(parts, i, selectedPartition, featureIndex) ==
    IF i > Len(parts)
    THEN <<selectedPartition, featureIndex>>
    ELSE IF \/ selectedPartition = NilPartition
            \/ /\ parts[i] # NilPartition
               /\ parts[i].informationGain > selectedPartition.informationGain
         THEN selectPartition(parts, i + 1, parts[i], i)
         ELSE selectPartition(parts, i + 1, selectedPartition, featureIndex)

\* Dataset.SubsetWith
SubsetWith(ds, fc) == IF ds = "any" THEN "any" ELSE "mixed"

\* faulty variant of PartitionCriterion: no task for the undefined criterion
OnlyDiscreteCriteria(f, j, n) == NewDiscreteCriterion(f, j)

\* NewDiscretePartition: the criterion of the j-th of the n tasks of a
\* partition on feature f, one per available value and a last one for the
\* undefined criterion
PartitionCriterion(f, j, n) ==
    IF j = n THEN NewUndefinedCriterion(f) ELSE NewDiscreteCriterion(f, j)

\* NewDiscretePartition: the dataset of a task of a partition of ds
PartitionDataset(ds, fc) ==
    IF fc.kind = "undefined" THEN ds ELSE SubsetWith(ds, fc)

\* memoryNodeStore.Create (and Store): mns.nodes[n.ID] = n
Create(ns, id, n) == MapPut(ns, id, n)

\* memoryNodeStore.Delete
Delete(ns, id) == MapDel(ns, id)

\* faulty variant of stNodeIDs: the ids are taken before Create sets them
stNodeIDsUnset(sts) == [j \in 1..Len(sts) |-> 0]

\* BranchOut: stNodeIDs, the ids Create gave the nodes of the tasks
stNodeIDs(sts) == [j \in 1..Len(sts) |-> sts[j].ID]

\* faulty variant of ChildNode: the node does not name its parent
ChildNodeNoParent(task, fc) == NewNode(0, fc)

\* BranchOut: st.Node.ParentID = task.Node.ID
ChildNode(task, fc) == NewNode(task.ID, fc)

\* faulty variant of RootNode: the root node carries a prediction
RootNodeWithPrediction == [NewNode(0, NilCriterion) EXCEPT !.Prediction = TRUE]

\* Seed: n := &tree.Node{}
RootNode == NewNode(0, NilCriterion)

\* Seed: the root task
RootTask(id, s, features) == Task(id, s, features)

\* ---- Seed ----
\* ns.Create of the root node; with ctx done withLock returns ctx.Err() and
\* Seed returns the error
MSeedCreate ==
    /\ mpc = "seed"
    /\ IF ctxDone
       THEN /\ mpc' = "seed_err"
            /\ UNCHANGED <<nodes, nextID>>
       ELSE /\ nextID' = nextID + 1
            /\ nodes' = Create(nodes, nextID + 1, RootNode)
            /\ mpc' = "seed_push"
    /\ UNCHANGED <<wk, ctxDone, farr, mq, pushed, completed, growFrame>>

\* q.Push of the root task; when it returns nil Seed returns the tree and
\* the grow command starts the workers and calls WaitFor; with ctx done
\* Push returns ctx.Err()
MSeedPush ==
    /\ mpc = "seed_push"
    /\ IF ctxDone
       THEN /\ mpc' = "seed_delete"
            /\ UNCHANGED <<mq, pushed, tree, wk>>
       ELSE /\ mq' = MemPush(mq, RootTask(nextID, trainingSet, 0))
            /\ pushed' = pushed \cup {nextID}
            /\ tree' = NewTree(nextID)
            /\ mpc' = "waitfor"
            /\ wk' = [w \in Workers |-> [wk[w] EXCEPT !.pc = "pull"]]
    /\ UNCHANGED <<ctxDone, nodes, nextID, farr, completed, queueFrame>>

\* q.Push of the root task returns an error of the queue's backend
MSeedPushFail ==
    /\ mpc = "seed_push"
    /\ mpc' = "seed_delete"
    /\ UNCHANGED <<wk, ctxDone, nodes, nextID, farr, mq, pushed, completed,
                   growFrame>>

\* ns.Delete(ctx, n), its error ignored, and return nil, err: with ctx done
\* withLock returns ctx.Err() without deleting the node
MSeedDelete ==
    /\ mpc = "seed_delete"
    /\ nodes' = IF ctxDone THEN nodes ELSE Delete(nodes, nextID)
    /\ mpc' = "seed_err"
    /\ UNCHANGED <<wk, ctxDone, nextID, farr, mq, pushed, completed, growFrame>>

\* the context handed to Seed is cancelled or reaches its deadline
SeedCtxDone ==
    /\ mpc \in {"seed", "seed_push", "seed_delete"}
    /\ ~ctxDone
    /\ ctxDone' = TRUE
    /\ UNCHANGED <<wk, mpc, nodes, nextID, farr, mq, pushed, completed,
                   growFrame>>

\* ---- WaitFor ----
\* one round of the loop: q.Count(ctx), then, unless both counts are zero,
\* the select on ctx.Done() and ticker.C.  With ctx done withRLock returns
\* ctx.Err() (its select never meets the goroutine holding the lock, whose
\* own select takes ctx.Done() as well), and so does the select of WaitFor.
MWaitFor ==
    /\ mpc = "waitfor"
    /\ mpc' = IF ctxDone THEN "wf_err"
              ELSE IF MemCount(mq)[1] + MemCount(mq)[2] = 0 THEN "wf_nil"
              ELSE "waitfor"
    /\ UNCHANGED <<wk, ctxDone, nodes, nextID, farr, mq, pushed, completed,
                   growFrame>>

\* the grow command: cancel() once WaitFor has returned
MCancel ==
    /\ mpc \in {"wf_nil", "wf_err"}
    /\ ctxDone' = TRUE
    /\ mpc' = IF mpc = "wf_nil" THEN "exit_ok" ELSE "exit_err"
    /\ UNCHANGED <<wk, nodes, nextID, farr, mq, pushed, completed, growFrame>>

\* ---- Work ----
\* q.Pull(ctx): withLock returns ctx.Err() when ctx is done
WPull(w) ==
    /\ wk[w].pc = "pull"
    /\ IF ctxDone
       THEN /\ SetWk(w, [wk[w] EXCEPT !.pc = "ret_err"])
            /\ UNCHANGED mq
       ELSE /\ mq' = MemPull(mq)
            /\ SetWk(w, IF MemPullTask(mq) = NilTask
                        THEN [wk[w] EXCEPT !.pc = "count"]
                        ELSE [wk[w] EXCEPT !.pc = "bo_start",
                                           !.task = MemPullTask(mq)])
    /\ UNCHANGED <<mpc, ctxDone, nodes, nextID, farr, pushed, completed,
                   growFrame>>

\* no task pulled: q.Count(ctx); r+p == 0 ends Work with nil; otherwise the
\* select on ctx.Done() and time.After(emptyQueueSleep), and Pull again
WCount(w) ==
    /\ wk[w].pc = "count"
    /\ SetWk(w, [wk[w] EXCEPT !.pc =
                   IF ctxDone THEN "ret_err"
                   ELSE IF MemCount(mq)[1] + MemCount(mq)[2] = 0 THEN "ret_nil"
                   ELSE "pull"])
    /\ UNCHANGED <<mpc, ctxDone, nodes, nextID, farr, mq, pushed, completed,
                   growFrame>>

\* the goroutine of the grow command that ran Work: cancel() on an error
WCancel(w) ==
    /\ wk[w].pc = "ret_err"
    /\ ctxDone' = TRUE
    /\ SetWk(w, [wk[w] EXCEPT !.pc = "exit_err"])
    /\ UNCHANGED <<mpc, nodes, nextID, farr, mq, pushed, completed, growFrame>>

\* mergeCtxCancel: the goroutine that cancels mctx once ctx is done
MergeCancel(w) ==
    /\ ctxDone /\ ~wk[w].mctx /\ wk[w].pc \in InWorkTask
    /\ SetWk(w, [wk[w] EXCEPT !.mctx = TRUE])
    /\ UNCHANGED <<mpc, ctxDone, nodes, nextID, farr, mq, pushed, completed,
                   growFrame>>

\* ---- BranchOut ----
\* prediction and entropy computed; a task without features or with a low
\* entropy is a leaf (return nil, nil after the deferred Store); otherwise
\* shuffleFeatures(task.AvailableFeatures), in place
BStart(w) ==
    /\ wk[w].pc = "bo_start"
    /\ nodes' = [nodes EXCEPT ![wk[w].task.ID].Prediction = TRUE]
    /\ \/ /\ \/ Len(farr[wk[w].task.AF]) = 0
             \/ TRUE \in LowEntropy(wk[w].task.Dataset)
          /\ SetWk(w, [wk[w] EXCEPT !.pc = "bo_store"])
          /\ UNCHANGED farr
       \/ /\ Len(farr[wk[w].task.AF]) > 0
          /\ FALSE \in LowEntropy(wk[w].task.Dataset)
          /\ \E s \in shuffleFeatures(farr[wk[w].task.AF]) :
                farr' = [farr EXCEPT ![wk[w].task.AF] = s]
          /\ SetWk(w, [wk[w] EXCEPT !.pc = "bo_select"])
    /\ UNCHANGED <<mpc, ctxDone, nextID, mq, pushed, completed, growFrame>>

\* tree.NewPredictionFromSet fails: BranchOut returns the error at once
BFailPredict(w) ==
    /\ wk[w].pc = "bo_start"
    /\ SetWk(w, [wk[w] EXCEPT !.pc = "drop", !.err = "branchout"])
    /\ UNCHANGED <<mpc, ctxDone, nodes, nextID, farr, mq, pushed, completed,
                   growFrame>>

\* Dataset.Entropy (the prediction is set by then) or partition fails:
\* BranchOut returns the error after the deferred Store
BFailDataset(w) ==
    /\ wk[w].pc \in {"bo_start", "bo_select"}
    /\ nodes' = [nodes EXCEPT ![wk[w].task.ID].Prediction = TRUE]
    /\ SetWk(w, [wk[w] EXCEPT !.pc = "bo_store", !.err = "branchout"])
    /\ UNCHANGED <<mpc, ctxDone, nextID, farr, mq, pushed, completed,
                   growFrame>>

\* the loop over task.AvailableFeatures that selects the partition (its
\* feature is at featureIndex, it has n tasks), or finds none
BSelect(w) ==
    /\ wk[w].pc = "bo_select"
    /\ \E parts \in Partitions(wk[w].task.Dataset, farr[wk[w].task.AF]) :
         LET sel == selectPartition(parts, 1, NilPartition, 1)
         IN  IF sel[1] = NilPartition
             THEN /\ SetWk(w, [wk[w] EXCEPT !.pc = "bo_store"])
                  /\ UNCHANGED nodes
             ELSE /\ SetWk(w, [wk[w] EXCEPT !.pc = "bo_build",
                                            !.featureIndex = sel[2],
                                            !.n = sel[1].n])
                  /\ nodes' = [nodes EXCEPT ![wk[w].task.ID].SubtreeFeature =
                                  farr[wk[w].task.AF][sel[2]]]
    /\ UNCHANGED <<mpc, ctxDone, nextID, farr, mq, pushed, completed,
                   growFrame>>

\* stAvailableFeatures: a new array with the features but the one at
\* featureIndex
BBuild(w) ==
    /\ wk[w].pc = "bo_build"
    /\ farr' = MapPut(farr, Cardinality(DOMAIN farr),
                      RemoveAt(farr[wk[w].task.AF], wk[w].featureIndex))
    /\ SetWk(w, [wk[w] EXCEPT !.pc = "bo_create",
                              !.stAF = Cardinality(DOMAIN farr)])
    /\ UNCHANGED <<mpc, ctxDone, nodes, nextID, mq, pushed, completed,
                   growFrame>>

\* NodeStore.Create for the node of the next task of the partition (it
\* fails when mctx is done); after the last one task.Node.SubtreeIDs is set
BCreate(w) ==
    /\ wk[w].pc = "bo_create"
    /\ IF wk[w].mctx
       THEN /\ SetWk(w, [wk[w] EXCEPT !.pc = "bo_store", !.err = "branchout",
                                      !.tasks = <<>>, !.n = 0])
            /\ UNCHANGED <<nodes, nextID>>
       ELSE LET id == nextID + 1
                fc == PartitionCriterion(nodes[wk[w].task.ID].SubtreeFeature,
                                         Len(wk[w].tasks) + 1,
                                         Len(wk[w].tasks) + wk[w].n)
                st == Task(id, PartitionDataset(wk[w].task.Dataset, fc),
                           wk[w].stAF)
                sts == Append(wk[w].tasks, st)
                created == Create(nodes, id, ChildNode(wk[w].task, fc))
            IN  /\ nextID' = id
                /\ nodes' = IF wk[w].n = 1
                            THEN [created EXCEPT ![wk[w].task.ID].SubtreeIDs =
                                    stNodeIDs(sts)]
                            ELSE created
                /\ SetWk(w, [wk[w] EXCEPT !.tasks = sts, !.n = wk[w].n - 1,
                               !.pc = IF wk[w].n = 1 THEN "bo_store"
                                      ELSE "bo_create"])
    /\ UNCHANGED <<mpc, ctxDone, farr, mq, pushed, completed, growFrame>>

\* faulty variant of StoreError: the error of Store is dropped
StoreErrorDropped(e, err) == e

\* BranchOut's deferred function: if e == nil { e = err }
StoreError(e, err) == IF e = "" THEN err ELSE e

\* the deferred NodeStore.Store(ctx, task.Node): the store already holds the
\* pointer to the node; with mctx done withLock returns ctx.Err(), which
\* becomes BranchOut's error when it had none
BStore(w) ==
    /\ wk[w].pc = "bo_store"
    /\ IF wk[w].mctx
       THEN SetWk(w, [wk[w] EXCEPT
                        !.pc = IF StoreError(wk[w].err, "branchout") = ""
                               THEN "push" ELSE "drop",
                        !.err = StoreError(wk[w].err, "branchout")])
       ELSE SetWk(w, [wk[w] EXCEPT !.pc = IF wk[w].err = "" THEN "push"
                                          ELSE "drop"])
    /\ UNCHANGED <<mpc, ctxDone, nodes, nextID, farr, mq, pushed, completed,
                   growFrame>>

\* ---- workTask ----
\* q.Push(ctx, st) of the next child task
WPush(w) ==
    /\ wk[w].pc = "push" /\ wk[w].tasks # <<>>
    /\ IF wk[w].mctx
       THEN /\ SetWk(w, [wk[w] EXCEPT !.pc = "drop", !.err = "push"])
            /\ UNCHANGED <<mq, pushed>>
       ELSE /\ mq' = MemPush(mq, Head(wk[w].tasks))
            /\ pushed' = pushed \cup {Head(wk[w].tasks).ID}
            /\ SetWk(w, [wk[w] EXCEPT !.tasks = Tail(wk[w].tasks)])
    /\ UNCHANGED <<mpc, ctxDone, nodes, nextID, farr, completed, growFrame>>

\* all children pushed: q.Complete(ctx, task.ID())
WComplete(w) ==
    /\ wk[w].pc = "push" /\ wk[w].tasks = <<>>
    /\ IF wk[w].mctx
       THEN /\ SetWk(w, [wk[w] EXCEPT !.pc = "drop", !.err = "complete"])
            /\ UNCHANGED <<mq, completed>>
       ELSE /\ mq' = MemComplete(mq, wk[w].task.ID)
            /\ completed' = completed \cup {wk[w].task.ID}
            /\ SetWk(w, [wk[w] EXCEPT !.pc = "drop"])
    /\ UNCHANGED <<mpc, ctxDone, nodes, nextID, farr, pushed, growFrame>>

\* what Work does once workTask has returned: return its error, or ctx.Err(),
\* or pull again
AfterWorkTask(w) ==
    [NoWk EXCEPT !.pc = IF wk[w].err # "" \/ ctxDone THEN "ret_err" ELSE "pull"]

\* the deferred q.Drop(ctx, task.ID()), its error ignored: with mctx done
\* withLock returns ctx.Err() without running the critical section
WDrop(w) ==
    /\ wk[w].pc = "drop"
    /\ IF wk[w].mctx THEN UNCHANGED mq
       ELSE mq' = MemDrop(mq, wk[w].task.ID)
    /\ SetWk(w, AfterWorkTask(w))
    /\ UNCHANGED <<mpc, ctxDone, nodes, nextID, farr, pushed, completed,
                   growFrame>>

InitGrow ==
    /\ backend = "grow"
    /\ mq = NewMemQueue
    /\ InitRedis
    /\ pushed = {} /\ completed = {} /\ avail = {}
    /\ ret = NoRet
    /\ wk = [w \in Workers |-> NoWk]
    /\ mpc = "seed"
    /\ ctxDone = FALSE
    /\ nodes = NoNodes
    /\ nextID = 0
    /\ farr = [a \in {0} |-> Features]
    /\ tree = NewTree(0)
    /\ trainingSet = "any"
    /\ sample = NoSample
    /\ pr = NoPredict
    /\ InitLib

\* the steps of a worker when nothing fails and nothing is cancelled
WorkerStep(w) ==
    \/ WPull(w) \/ WCount(w)
    \/ BStart(w) \/ BSelect(w) \/ BBuild(w) \/ BCreate(w) \/ BStore(w)
    \/ WPush(w) \/ WComplete(w) \/ WDrop(w)

MainStep == MSeedCreate \/ MSeedPush \/ MWaitFor

\* a growth run without backend errors and without cancellation
NextGrowLive == MainStep \/ \E w \in Workers : WorkerStep(w)

\* a growth run with backend errors and cancellation
NextGrow ==
    \/ NextGrowLive
    \/ SeedCtxDone \/ MSeedPushFail \/ MSeedDelete
    \/ MCancel
    \/ \E w \in Workers :
        \/ WCancel(w) \/ MergeCancel(w) \/ BFailPredict(w) \/ BFailDataset(w)

SpecGrow == InitGrow /\ [][NextGrow]_vars

\* the features slice handed to Seed with the fixed dataset
FixedFeatures == [i \in 1..NFixedFeatures |-> i]

\* a growth run from the dataset "full" with NFixedFeatures features
InitGrowFixed ==
    /\ backend = "grow"
    /\ mq = NewMemQueue
    /\ InitRedis
    /\ pushed = {} /\ completed = {} /\ avail = {}
    /\ ret = NoRet
    /\ wk = [w \in Workers |-> NoWk]
    /\ mpc = "seed"
    /\ ctxDone = FALSE
    /\ nodes = NoNodes
    /\ nextID = 0
    /\ farr = [a \in {0} |-> FixedFeatures]
    /\ tree = NewTree(0)
    /\ trainingSet = "full"
    /\ sample = NoSample
    /\ pr = NoPredict
    /\ InitLib

SpecGrowFixed == InitGrowFixed /\ [][NextGrowLive]_vars

\* goroutines are scheduled fairly
SpecGrowLive ==
    /\ InitGrow
    /\ [][NextGrowLive]_vars
    /\ WF_vars(MainStep)
    /\ \A w \in Workers : WF_vars(WorkerStep(w))

(***************************************************************************)
(* Tree.Predict on a tree held in the node store.  A step is one Get of    *)
(* the root, one pass of the loop over a node's subtree ids, or the return *)
(* at a leaf.                                                              *)
(***************************************************************************)
predictFrame == <<backend, mq, redisVars, pushed, completed, avail, ret, wk,
                  mpc, ctxDone, nodes, nextID, farr, tree, trainingSet,
                  sample, libVars>>

\* sample.ValueFor: nil for a feature the sample does not define
ValueFor(s, f) == IF f \in DOMAIN s THEN s[f] ELSE NilValue

\* Criterion.SatisfiedBy of the continuous, the discrete and the undefined
\* criterion: the (bool, error) it returns
SatisfiedBy(fc, s) ==
    IF fc.kind = "undefined" THEN [ok |-> TRUE, err |-> FALSE]
    ELSE LET val == ValueFor(s, fc.feature)
         IN  IF val.type = "error" THEN [ok |-> FALSE, err |-> TRUE]
             ELSE IF val.type = "nil" THEN [ok |-> FALSE, err |-> FALSE]
             ELSE IF fc.kind = "discrete"
             THEN [ok |-> val.type = "string" /\ fc.value = val.v,
                   err |-> FALSE]
             ELSE [ok |-> /\ val.type = "float64"
                          /\ (IsInf(fc.a) \/ fc.a <= val.v)
                          /\ (IsInf(fc.b) \/ val.v < fc.b),
                   err |-> FALSE]

\* faulty variant of IsUndefinedCriterion: no criterion is taken for an
\* undefined one, the loop stops at the first satisfied child
NeverUndefinedCriterion(fc) == FALSE

\* the type assertion subnode.FeatureCriterion.(feature.UndefinedCriterion)
IsUndefinedCriterion(fc) == fc.kind = "undefined"

\* Predict's loop over n.SubtreeIDs from position i on: the selectedNode it
\* ends with (0 for nil) or the error it returns
RECURSIVE selectNode(_, _, _, _, _)
selectNode(ns, ids, i, selectedNode, s) ==
    IF i > Len(ids) THEN [selectedNode |-> selectedNode, err |-> ""]
    ELSE IF ids[i] \notin DOMAIN ns
    THEN [selectedNode |-> 0, err |-> "node not found"]
    ELSE LET fc == ns[ids[i]].FeatureCriterion
             sat == SatisfiedBy(fc, s)
         IN  IF fc.kind = "nil" THEN selectNode(ns, ids, i + 1, selectedNode, s)
             ELSE IF sat.err THEN [selectedNode |-> 0, err |-> "value for"]
             ELSE IF ~sat.ok THEN selectNode(ns, ids, i + 1, selectedNode, s)
             ELSE IF ~IsUndefinedCriterion(fc)
             THEN [selectedNode |-> ids[i], err |-> ""]
             ELSE selectNode(ns, ids, i + 1, ids[i], s)

\* Predict returns an error
PredictErr(p, err, f) == [p EXCEPT !.pc = "done", !.err = err, !.feature = f]

\* one pass of Predict's for loop at node p.n
predictStep(ns, p, s) ==
    IF ns[p.n].SubtreeFeature = 0
    THEN IF ns[p.n].Prediction
         THEN [p EXCEPT !.pc = "done", !.prediction = TRUE]
         ELSE PredictErr(p, "ErrCannotPredictFromSample", 0)
    ELSE LET r == selectNode(ns, ns[p.n].SubtreeIDs, 1, 0, s)
         IN  IF r.err # "" THEN PredictErr(p, r.err, 0)
             ELSE IF r.selectedNode = 0
             THEN PredictErr(p, "sample does not satisfy any subtree criteria",
                             ns[p.n].SubtreeFeature)
             ELSE [p EXCEPT !.n = r.selectedNode]

\* Predict's Get of the root node
predictRoot(ns, rootID) ==
    IF rootID \in DOMAIN ns
    THEN [NoPredict EXCEPT !.pc = "loop", !.n = rootID]
    ELSE PredictErr(NoPredict, "root node not found", 0)

RECURSIVE predictLoop(_, _, _)
predictLoop(ns, p, s) ==
    IF p.pc = "done" THEN p ELSE predictLoop(ns, predictStep(ns, p, s), s)

\* Tree.Predict when no Get fails: what it returns for the sample
Predict(ns, rootID, s) == predictLoop(ns, predictRoot(ns, rootID), s)

PredictGetRoot ==
    /\ pr.pc = "start"
    /\ pr' = predictRoot(nodes, tree.RootID)
    /\ UNCHANGED predictFrame

\* a Get of the node store returns an error
PredictGetFails ==
    /\ \/ pr.pc = "start"
       \/ /\ pr.pc = "loop"
          /\ nodes[pr.n].SubtreeFeature # 0
          /\ Len(nodes[pr.n].SubtreeIDs) > 0
    /\ pr' = PredictErr(pr, "retrieving node", 0)
    /\ UNCHANGED predictFrame

PredictSelect ==
    /\ pr.pc = "loop"
    /\ nodes[pr.n].SubtreeFeature # 0
    /\ pr' = predictStep(nodes, pr, sample)
    /\ UNCHANGED predictFrame

PredictReturn ==
    /\ pr.pc = "loop"
    /\ nodes[pr.n].SubtreeFeature = 0
    /\ pr' = predictStep(nodes, pr, sample)
    /\ UNCHANGED predictFrame

\* the criteria the children of a node splitting on feature f may carry
PredictCriteria(f) ==
    {NilCriterion, NewUndefinedCriterion(f)}
        \cup {NewDiscreteCriterion(f, v) : v \in 1..MaxValue}
        \cup {NewContinuousCriterion(f, NegInf, MaxValue),
              NewContinuousCriterion(f, MaxValue, PosInf)}

\* the sequences over S of length at most n
SeqUpTo(S, n) == UNION {[1..k -> S] : k \in 0..n}

\* a tree in the store: the root (id 1) splits on feature 1 and has one
\* child per criterion of fcs (ids 2, 3, ...); the first child splits on
\* feature 2 when gfcs is not empty and has one child per criterion of gfcs;
\* prediction tells whether the nodes carry a prediction
PredictNodes(fcs, gfcs, prediction) ==
    LET nc == Len(fcs)
        root == [NewNode(0, NilCriterion) EXCEPT
                    !.SubtreeFeature = 1,
                    !.SubtreeIDs = [j \in 1..nc |-> 1 + j],
                    !.Prediction = prediction]
        child(j) ==
            IF j = 1 /\ Len(gfcs) > 0
            THEN [NewNode(1, fcs[j]) EXCEPT
                    !.SubtreeFeature = 2,
                    !.SubtreeIDs = [k \in 1..Len(gfcs) |-> 1 + nc + k],
                    !.Prediction = prediction]
            ELSE [NewNode(1, fcs[j]) EXCEPT !.Prediction = prediction]
        grandchild(k) == [NewNode(2, gfcs[k]) EXCEPT !.Prediction = prediction]
    IN  [id \in 1..(1 + nc + Len(gfcs)) |->
            IF id = 1 THEN root
            ELSE IF id <= 1 + nc THEN child(id - 1)
            ELSE grandchild(id - 1 - nc)]

\* Predict is called with a sample on a tree held in the node store; the
\* store may lack the root or the second child
InitPredict ==
    /\ backend = "predict"
    /\ mq = NewMemQueue
    /\ InitRedis
    /\ pushed = {} /\ completed = {} /\ avail = {}
    /\ ret = NoRet
    /\ wk = [w \in Workers |-> NoWk]
    /\ mpc = "off"
    /\ ctxDone = FALSE
    /\ \E fcs \in SeqUpTo(PredictCriteria(1), MaxSubtrees),
          gfcs \in SeqUpTo({NewUndefinedCriterion(2),
                            NewDiscreteCriterion(2, 1)}, 1),
          prediction \in BOOLEAN, gone \in {0, 1, 3} :
            /\ nodes = IF gone = 0 THEN PredictNodes(fcs, gfcs, prediction)
                       ELSE Delete(PredictNodes(fcs, gfcs, prediction), gone)
            /\ nextID = 1 + Len(fcs) + Len(gfcs)
    /\ farr = [a \in {0} |-> Features]
    /\ tree = NewTree(1)
    /\ trainingSet = "any"
    /\ sample \in [1..2 -> SampleValues]
    /\ pr = [NoPredict EXCEPT !.pc = "start"]
    /\ InitLib

NextPredict ==
    PredictGetRoot \/ PredictGetFails \/ PredictSelect \/ PredictReturn

SpecPredict == InitPredict /\ [][NextPredict]_vars

(***************************************************************************)
(* Several goroutines call Tree.Predict with one sample on one tree that   *)
(* nothing else writes to.  A step is one step of one call.                *)
(***************************************************************************)
\* the queue, the growth and the single Predict call are not running
IdleProgram(b) ==
    /\ backend = b
    /\ mq = NewMemQueue
    /\ InitRedis
    /\ pushed = {} /\ completed = {} /\ avail = {}
    /\ ret = NoRet
    /\ wk = [w \in Workers |-> NoWk]
    /\ mpc = "off"
    /\ ctxDone = FALSE
    /\ farr = [a \in {0} |-> Features]
    /\ trainingSet = "any"

concFrame == <<backend, mq, redisVars, pushed, completed, avail, ret, wk,
               mpc, ctxDone, nextID, farr, tree, trainingSet, sample, pr,
               testVars,
              jsonVars,
              critVars,
              datasetVars,
              storeVars,
              confVars,
              lockVars,
              shuffleVars,
              partitionVars>>

\* faulty variant of GetLeaves: the read clears the prediction of the node
GetClearsPrediction(ns, id) ==
    IF id \in DOMAIN ns THEN [ns EXCEPT ![id].Prediction = FALSE] ELSE ns

\* memoryNodeStore.Get: what the call leaves in mns.nodes (n = mns.nodes[id]
\* under the read lock)
GetLeaves(ns, id) == ns

ConcPredictGetRoot(c) ==
    /\ prs[c].pc = "start"
    /\ prs' = [prs EXCEPT ![c] = predictRoot(nodes, tree.RootID)]
    /\ nodes' = GetLeaves(nodes, tree.RootID)
    /\ UNCHANGED concFrame

\* a Get of the node store returns an error
ConcPredictGetFails(c) ==
    /\ \/ prs[c].pc = "start"
       \/ /\ prs[c].pc = "loop"
          /\ nodes[prs[c].n].SubtreeFeature # 0
          /\ Len(nodes[prs[c].n].SubtreeIDs) > 0
    /\ prs' = [prs EXCEPT ![c] = PredictErr(prs[c], "retrieving node", 0)]
    /\ UNCHANGED <<nodes, concFrame>>

\* a pass of the loop; the node it descends into was read with Get
ConcPredictSelect(c) ==
    /\ prs[c].pc = "loop"
    /\ nodes[prs[c].n].SubtreeFeature # 0
    /\ LET p == predictStep(nodes, prs[c], sample)
       IN  /\ prs' = [prs EXCEPT ![c] = p]
           /\ nodes' = IF p.pc = "loop" THEN GetLeaves(nodes, p.n) ELSE nodes
    /\ UNCHANGED concFrame

ConcPredictReturn(c) ==
    /\ prs[c].pc = "loop"
    /\ nodes[prs[c].n].SubtreeFeature = 0
    /\ prs' = [prs EXCEPT ![c] = predictStep(nodes, prs[c], sample)]
    /\ UNCHANGED <<nodes, concFrame>>

\* NPredictors calls of Predict with one sample on a tree in the store
InitConcPredict ==
    /\ IdleProgram("predict")
    /\ \E fcs \in SeqUpTo(PredictCriteria(1), MaxSubtrees - 1),
          gfcs \in SeqUpTo({NewUndefinedCriterion(2),
                            NewDiscreteCriterion(2, 1)}, 1),
          prediction \in BOOLEAN :
            /\ nodes = PredictNodes(fcs, gfcs, prediction)
            /\ nextID = 1 + Len(fcs) + Len(gfcs)
    /\ tree = NewTree(1)
    /\ sample \in [1..2 -> SampleValues]
    /\ pr = NoPredict
    /\ prs = [c \in Predictors |-> [NoPredict EXCEPT !.pc = "start"]]
    /\ IdleLib("conc")

NextConcPredict ==
    \E c \in Predictors :
        \/ ConcPredictGetRoot(c) \/ ConcPredictGetFails(c)
        \/ ConcPredictSelect(c) \/ ConcPredictReturn(c)

SpecConcPredict == InitConcPredict /\ [][NextConcPredict]_vars

(***************************************************************************)
(* Tree.Test on a tree held in the node store and a dataset.  A step is    *)
(* the reading of the dataset, one pass of the loop over the samples, or   *)
(* the return.                                                             *)
(***************************************************************************)
testFrame == <<backend, mq, redisVars, pushed, completed, avail, ret, wk,
               mpc, ctxDone, nodes, nextID, farr, tree, trainingSet, sample,
               pr, prs, testSet, probs,
              jsonVars,
              critVars,
              datasetVars,
              storeVars,
              confVars,
              lockVars,
              shuffleVars,
              partitionVars>>

\* t.Label: the feature the tree predicts
Label == 2

\* the values of the label
LabelValues == 1..MaxValue

\* the orders in which a range over a Go map with these keys may go
MapOrders(keys) ==
    {o \in [1..Cardinality(keys) -> keys] :
        \A a, b \in 1..Cardinality(keys) : a # b => o[a] # o[b]}

\* Prediction.PredictedValue: the loop over p.probabilities in the order
\* the range takes, from position i on (value 0 is "")
RECURSIVE PredictedValue(_, _, _, _, _)
PredictedValue(p, order, i, value, prob) ==
    IF i > Len(order) THEN value
    ELSE IF p[order[i]] > prob
    THEN PredictedValue(p, order, i + 1, order[i], p[order[i]])
    ELSE PredictedValue(p, order, i + 1, value, prob)

\* faulty variant of IsCannotPredict: every error of Predict counts as an
\* unpredictable sample
AnyPredictError(err) == TRUE

\* Test: err == ErrCannotPredictFromSample
IsCannotPredict(err) == err = "ErrCannotPredictFromSample"

\* Test returns an error: 0.0, 0, err
TestErr(t, err) ==
    [t EXCEPT !.pc = "done", !.num = 0, !.den = 1, !.unpredictable = 0,
              !.err = err]

\* s.Samples and s.Count
TestStart ==
    /\ tst.pc = "start"
    /\ tst' = [tst EXCEPT !.pc = "loop", !.i = 1, !.count = Len(testSet)]
    /\ UNCHANGED testFrame

\* s.Samples, s.Count or a Get of the node store returns an error
TestFails ==
    /\ tst.pc \in {"start", "loop"}
    /\ tst.pc = "loop" => tst.i <= Len(testSet)
    /\ tst' = TestErr(tst, "backend")
    /\ UNCHANGED testFrame

\* one pass of the loop over the samples
TestSample ==
    /\ tst.pc = "loop"
    /\ tst.i <= Len(testSet)
    /\ LET smp == testSet[tst.i]
           p == Predict(nodes, tree.RootID, smp)
           v == ValueFor(smp, Label)
       IN  IF p.err # ""
           THEN tst' = IF IsCannotPredict(p.err)
                       THEN [tst EXCEPT
                               !.errCount = @ + 1, !.i = @ + 1,
                               !.picked = Append(@, [ok |-> FALSE,
                                                     value |-> 0])]
                       ELSE TestErr(tst, p.err)
           ELSE \E order \in MapOrders(DOMAIN probs[p.n]) :
                   LET pV == PredictedValue(probs[p.n], order, 1, 0, 0)
                   IN  tst' = IF v.type = "error"
                              THEN TestErr(tst, "value for")
                              ELSE [tst EXCEPT
                                      !.correct =
                                          IF v.type = "string" /\ v.v = pV
                                          THEN @ + 1 ELSE @,
                                      !.i = @ + 1,
                                      !.picked = Append(@, [ok |-> TRUE,
                                                            value |-> pV])]
    /\ UNCHANGED testFrame

\* result = result / float64(count); return result, errCount, nil
TestReturn ==
    /\ tst.pc = "loop"
    /\ tst.i > Len(testSet)
    /\ tst' = [tst EXCEPT !.pc = "done", !.num = tst.correct,
                          !.den = tst.count, !.unpredictable = tst.errCount]
    /\ UNCHANGED testFrame

\* the predictions a node may carry: none (nil) or probabilities given as
\* the number of samples with each label value among the node's samples
TestPredictions ==
    [nil : {TRUE}, p : {[v \in LabelValues |-> 0]}]
        \cup [nil : {FALSE}, p : [LabelValues -> 0..1]]

\* the criteria of the children of the root of a tree handed to Test
TestCriteria ==
    {NewUndefinedCriterion(1)}
        \cup {NewDiscreteCriterion(1, v) : v \in 1..MaxValue}

\* a tree in the store: the root (id 1) is a leaf when fcs is empty and
\* else splits on feature 1 with one child per criterion of fcs, child j
\* carrying the prediction ps[j]
TestNodes(fcs, ps) ==
    [id \in 1..(1 + Len(fcs)) |->
        IF id = 1
        THEN [NewNode(0, NilCriterion) EXCEPT
                !.SubtreeFeature = IF Len(fcs) = 0 THEN 0 ELSE 1,
                !.SubtreeIDs = [j \in 1..Len(fcs) |-> 1 + j],
                !.Prediction = TRUE]
        ELSE [NewNode(1, fcs[id - 1]) EXCEPT
                !.Prediction = ~ps[id - 1].nil]]

\* the samples of a dataset handed to Test: a value for feature 1 and for
\* the label, each absent, a string or an error of ValueFor
TestSamples ==
    [{1, Label} -> {v \in SampleValues : v.type # "float64"}]

\* Test is called with a dataset on a tree held in the node store
InitTest ==
    /\ IdleProgram("test")
    /\ \E k \in 0..(MaxSubtrees - 1) :
         \E fcs \in [1..k -> TestCriteria], ps \in [1..k -> TestPredictions] :
            /\ nodes = TestNodes(fcs, ps)
            /\ nextID = 1 + k
            /\ probs = [id \in 1..(1 + k) |->
                          IF id = 1 THEN [v \in LabelValues |-> 1]
                          ELSE ps[id - 1].p]
    /\ tree = NewTree(1)
    /\ sample = NoSample
    /\ pr = NoPredict
    /\ IdleLib("test")
    /\ testSet \in SeqUpTo(TestSamples, MaxSamples)
    /\ tst = [NoTest EXCEPT !.pc = "start"]

NextTest == TestStart \/ TestFails \/ TestSample \/ TestReturn

SpecTest == InitTest /\ [][NextTest]_vars

(***************************************************************************)
(* WriteJSONTree and ReadJSONTree.  A grown tree held in the node store is *)
(* written as a JSON document; the document, as written or after an edit,  *)
(* is read into an empty tree with a fresh in-memory node store.  A step   *)
(* is the write, an edit of the document, the reading of the header, the   *)
(* decoding and storing of one node, or the return.                        *)
(***************************************************************************)
jsonFrame == <<backend, mq, redisVars, pushed, completed, avail, ret, wk,
               mpc, ctxDone, nodes, nextID, farr, tree, trainingSet, sample,
               pr, prs, testVars,
              critVars,
              datasetVars,
              storeVars,
              confVars,
              lockVars,
              shuffleVars,
              partitionVars>>

\* the features slice handed to NewCriteriaEncodeDecoder, to
\* NewNodeEncodeDecoder and to ReadJSONTree: the features of the training
\* set and the label; a feature is known by its name
JSONLabel == NFeatures + 1

Catalog == 1..JSONLabel

\* a feature name no feature of the catalog has
UnknownName == JSONLabel + 1

\* the type assertions f.(*feature.ContinuousFeature) and
\* f.(*feature.DiscreteFeature): feature 2 is the continuous one
IsContinuousFeature(f) == f = 2

\* a string holding a float64: "+Inf", "-Inf" or a number with six decimals
\* (micro: the number in millionths)
FloatString(inf, micro) == [inf |-> inf, micro |-> micro]

\* fmt.Sprintf("%f", x): six decimals, rounded to the nearest
Sprintf(x) ==
    IF x = PosInf THEN FloatString(1, 0)
    ELSE IF x = NegInf THEN FloatString(0 - 1, 0)
    ELSE FloatString(0, (2 * x + UnitsPerMicro) \div (2 * UnitsPerMicro))

\* strconv.ParseFloat(str, 64), which reads "+Inf" and "-Inf" as well
ParseFloat(str) ==
    IF str.inf = 1 THEN PosInf
    ELSE IF str.inf = 0 - 1 THEN NegInf
    ELSE str.micro * UnitsPerMicro

\* jsonCriterion; t is "" for a node without criterion (the "c" field is
\* omitted)
JSONCriterion(t, f, v, a, b) == [t |-> t, f |-> f, v |-> v, a |-> a, b |-> b]

NoJSONCriterion == JSONCriterion("", 0, 0, FloatString(0, 0), FloatString(0, 0))

\* jsonCriteriaEncodeDecoder.Encode, with encodeContinuousCriterion,
\* encodeDiscreteCriterion and encodeUndefinedCriterion
EncodeCriterion(fc) ==
    IF fc.kind = "continuous"
    THEN JSONCriterion("continuous", fc.feature, 0, Sprintf(fc.a), Sprintf(fc.b))
    ELSE IF fc.kind = "discrete"
    THEN JSONCriterion("discrete", fc.feature, fc.value,
                       FloatString(0, 0), FloatString(0, 0))
    ELSE JSONCriterion("undefined", fc.feature, 0,
                       FloatString(0, 0), FloatString(0, 0))

\* jsonCriterion.Criterion, with toContinuousCriterion, toDiscreteCriterion
\* and toUndefinedCriterion: the criterion and whether an error is returned
DecodeCriterion(jc) ==
    IF jc.f \notin Catalog THEN [fc |-> NilCriterion, err |-> TRUE]
    ELSE IF jc.t = "continuous"
    THEN IF ~IsContinuousFeature(jc.f) THEN [fc |-> NilCriterion, err |-> TRUE]
         ELSE [fc |-> NewContinuousCriterion(jc.f, ParseFloat(jc.a),
                                             ParseFloat(jc.b)),
               err |-> FALSE]
    ELSE IF jc.t = "discrete"
    THEN IF IsContinuousFeature(jc.f) THEN [fc |-> NilCriterion, err |-> TRUE]
         ELSE [fc |-> NewDiscreteCriterion(jc.f, jc.v), err |-> FALSE]
    ELSE IF jc.t = "undefined"
    THEN [fc |-> NewUndefinedCriterion(jc.f), err |-> FALSE]
    ELSE [fc |-> NilCriterion, err |-> TRUE]

\* nodeEncodeDecoder.Encode: the json node of the node id of ns
EncodeNode(ns, id) ==
    [id |-> id, pId |-> ns[id].ParentID, stIds |-> ns[id].SubtreeIDs,
     c |-> IF ns[id].FeatureCriterion.kind = "nil" THEN NoJSONCriterion
           ELSE EncodeCriterion(ns[id].FeatureCriterion),
     f |-> ns[id].SubtreeFeature,
     pred |-> ns[id].Prediction]

\* nodeEncodeDecoder.Decode: the node, its id, and whether an error is
\* returned
DecodeNode(jn) ==
    LET c == IF jn.c.t = "" THEN [fc |-> NilCriterion, err |-> FALSE]
             ELSE DecodeCriterion(jn.c)
    IN  [id |-> jn.id,
         n |-> [ParentID |-> jn.pId, SubtreeIDs |-> jn.stIds,
                Prediction |-> jn.pred, FeatureCriterion |-> c.fc,
                SubtreeFeature |-> jn.f],
         err |-> c.err \/ (jn.f # 0 /\ jn.f \notin Catalog)]

\* Tree.traverse with bottomup false: the ids of the nodes in the order f is
\* called with them
RECURSIVE traverse(_, _)
RECURSIVE traverseAll(_, _, _)
traverse(ns, id) == <<id>> \o traverseAll(ns, ns[id].SubtreeIDs, 1)

traverseAll(ns, ids, i) ==
    IF i > Len(ids) THEN <<>>
    ELSE traverse(ns, ids[i]) \o traverseAll(ns, ids, i + 1)

\* WriteJSONTree: the document written for the tree t whose nodes are ns
WriteJSONTree(ns, t) ==
    LET order == traverse(ns, t.RootID)
    IN  [rootID |-> t.RootID, label |-> JSONLabel,
         nodes |-> [i \in 1..Len(order) |-> EncodeNode(ns, order[i])]]

JWrite ==
    /\ rd.pc = "write"
    /\ doc' = WriteJSONTree(nodes, tree)
    /\ rd' = [rd EXCEPT !.pc = "written"]
    /\ UNCHANGED <<rstore, rtree, jsonFrame>>

\* the documents that differ from d in one place: another or no label, no
\* root id, or, in one node, the feature or the type of the criterion or
\* the splitting feature
Edits(d) ==
    {[d EXCEPT !.label = l] : l \in {0, UnknownName}}
        \cup {[d EXCEPT !.rootID = 0]}
        \cup {[d EXCEPT !.nodes[i].c.f = UnknownName] :
                i \in {j \in 1..Len(d.nodes) : d.nodes[j].c.t # ""}}
        \cup {[d EXCEPT !.nodes[i].c.t = t] :
                i \in {j \in 1..Len(d.nodes) : d.nodes[j].c.t # ""},
                t \in {"continuous", "discrete", "unknown"}}
        \cup {[d EXCEPT !.nodes[i].f = UnknownName] :
                i \in {j \in 1..Len(d.nodes) : d.nodes[j].f # 0}}

\* the document handed to ReadJSONTree is not the one that was written
JEdit ==
    /\ rd.pc = "written"
    /\ \E d \in Edits(doc) \ {doc} : doc' = d
    /\ rd' = [rd EXCEPT !.pc = "edited"]
    /\ UNCHANGED <<rstore, rtree, jsonFrame>>

\* memoryNodeStore.Store: mns.nodes[n.ID] = n
Store(ns, id, n) == MapPut(ns, id, n)

\* ReadJSONTree returns an error
ReadErr(r, err) == [r EXCEPT !.pc = "done", !.err = err]

\* dec.Decode fails: the reader does not hold a JSON object
JDecodeFails ==
    /\ rd.pc \in {"written", "edited"}
    /\ rd' = ReadErr(rd, "decode")
    /\ UNCHANGED <<doc, rstore, rtree, jsonFrame>>

\* dec.Decode, the lookup of the label among features, the check of the
\* root id and the assignments to t.Label and t.RootID
JReadHeader ==
    /\ rd.pc \in {"written", "edited"}
    /\ IF doc.label \notin Catalog
       THEN /\ rd' = ReadErr(rd, "no label feature defined")
            /\ UNCHANGED rtree
       ELSE IF doc.rootID = 0
       THEN /\ rd' = ReadErr(rd, "no root node id available")
            /\ UNCHANGED rtree
       ELSE /\ rtree' = [RootID |-> doc.rootID, Label |-> doc.label]
            /\ rd' = [rd EXCEPT !.pc = "nodes", !.i = 1]
    /\ UNCHANGED <<doc, rstore, jsonFrame>>

\* one pass of the loop over jt.Nodes: ned.Decode and t.NodeStore.Store
JReadNode ==
    /\ rd.pc = "nodes" /\ rd.i <= Len(doc.nodes)
    /\ LET d == DecodeNode(doc.nodes[rd.i])
       IN  IF d.err
           THEN /\ rd' = ReadErr(rd, "decoding node")
                /\ UNCHANGED rstore
           ELSE /\ rstore' = Store(rstore, d.id, d.n)
                /\ rd' = [rd EXCEPT !.i = rd.i + 1]
    /\ UNCHANGED <<doc, rtree, jsonFrame>>

\* t.NodeStore.Store returns an error (the ctx is done)
JReadStoreFails ==
    /\ rd.pc = "nodes" /\ rd.i <= Len(doc.nodes)
    /\ ~DecodeNode(doc.nodes[rd.i]).err
    /\ rd' = ReadErr(rd, "storing node")
    /\ UNCHANGED <<doc, rstore, rtree, jsonFrame>>

\* the loop is over: ReadJSONTree returns nil
JReadReturn ==
    /\ rd.pc = "nodes" /\ rd.i > Len(doc.nodes)
    /\ rd' = [rd EXCEPT !.pc = "done"]
    /\ UNCHANGED <<doc, rstore, rtree, jsonFrame>>

\* the criteria of the subsets a partition of feature f splits a dataset
\* into: one per value of a discrete feature, or the ranges between the
\* thresholds t1 <= t2 of a continuous one (newRangePartition: a threshold
\* is the middle of two values of the feature)
JSONCriteria(f, t1, t2) ==
    IF IsContinuousFeature(f)
    THEN IF t1 = t2
         THEN <<NewContinuousCriterion(f, NegInf, t1),
                NewContinuousCriterion(f, t1, PosInf)>>
         ELSE <<NewContinuousCriterion(f, NegInf, t1),
                NewContinuousCriterion(f, t1, t2),
                NewContinuousCriterion(f, t2, PosInf)>>
    ELSE [v \in 1..MaxValue |-> NewDiscreteCriterion(f, v)]

\* a grown tree: the root (id 1) splits on feature f and has one child per
\* criterion of fcs, and a last one with the undefined criterion when
\* undef; every node has a prediction
JSONNodes(f, fcs, undef) ==
    LET cs == IF undef THEN Append(fcs, NewUndefinedCriterion(f)) ELSE fcs
    IN  [id \in 1..(1 + Len(cs)) |->
            IF id = 1
            THEN [NewNode(0, NilCriterion) EXCEPT
                    !.SubtreeFeature = f,
                    !.SubtreeIDs = [j \in 1..Len(cs) |-> 1 + j],
                    !.Prediction = TRUE]
            ELSE [NewNode(1, cs[id - 1]) EXCEPT !.Prediction = TRUE]]

InitJSON ==
    /\ IdleProgram("json")
    /\ \E f \in 1..NFeatures, t1 \in 0..MaxFloat, t2 \in 0..MaxFloat,
          undef \in BOOLEAN :
            /\ t1 <= t2
            /\ IsContinuousFeature(f) \/ (t1 = 0 /\ t2 = 0)
            /\ nodes = JSONNodes(f, JSONCriteria(f, t1, t2), undef)
            /\ nextID = Len(JSONCriteria(f, t1, t2)) + (IF undef THEN 2 ELSE 1)
    /\ tree = NewTree(1)
    /\ sample = NoSample
    /\ pr = NoPredict
    /\ IdleLib("json")
    /\ doc = NoDoc
    /\ rd = [NoRead EXCEPT !.pc = "write"]
    /\ rstore = NoNodes
    /\ rtree = EmptyTree

NextJSON ==
    \/ JWrite \/ JEdit \/ JDecodeFails \/ JReadHeader \/ JReadNode
    \/ JReadStoreFails \/ JReadReturn

SpecJSON == InitJSON /\ [][NextJSON]_vars

(***************************************************************************)
(* continuousCriterion.SatisfiedBy on its own: a criterion built with      *)
(* NewContinuousCriterion from any two float64 bounds is asked about a     *)
(* sample.                                                                 *)
(***************************************************************************)
critFrame == <<backend, mq, redisVars, pushed, completed, avail, ret, wk,
               mpc, ctxDone, nodes, nextID, farr, tree, trainingSet, sample,
               pr, prs, testVars, jsonVars, crit,
              datasetVars,
              storeVars,
              confVars,
              lockVars,
              shuffleVars,
              partitionVars>>

\* float64: the finite numbers of the model and the two infinities
Float64 == (0..MaxFloat) \cup {NegInf, PosInf}

\* what ValueFor may return for the feature of the criterion: nil, a
\* string, a float64, or an error
CriterionValues ==
    {NilValue, [type |-> "error", v |-> 0]}
        \cup [type : {"string"}, v : 1..MaxValue]
        \cup [type : {"float64"}, v : 0..MaxFloat]

\* the call cfc.SatisfiedBy(ctx, sample)
CriterionSatisfiedBy ==
    /\ csat.pc = "call"
    /\ csat' = [pc |-> "done", ok |-> SatisfiedBy(crit, sample).ok,
               err |-> SatisfiedBy(crit, sample).err]
    /\ UNCHANGED critFrame

\* the samples: one that does not define the feature of the criterion, and
\* one for each value of that feature
InitCriterion ==
    /\ IdleProgram("criterion")
    /\ nodes = NoNodes /\ nextID = 0
    /\ tree = NewTree(0)
    /\ pr = NoPredict
    /\ IdleLib("criterion")
    /\ \E a \in Float64, b \in Float64 : crit = NewContinuousCriterion(2, a, b)
    /\ \/ sample = <<NilValue>>
       \/ \E v \in CriterionValues : sample = <<NilValue, v>>
    /\ csat = [NoSat EXCEPT !.pc = "call"]

NextCriterion == CriterionSatisfiedBy

SpecCriterion == InitCriterion /\ [][NextCriterion]_vars

(***************************************************************************)
(* dataset.Dataset: the memory-intensive and the cpu-intensive in-memory   *)
(* implementations.  The instances built so far are kept in dsets; a step  *)
(* is one call of SubsetWith, Samples, Count or Entropy on one of them.    *)
(* The samples are the ones the program builds from its input             *)
(* (inputsample.NewSample), whose ValueFor returns no error.               *)
(***************************************************************************)
datasetFrame == <<backend, mq, redisVars, pushed, completed, avail, ret, wk,
                  mpc, ctxDone, nodes, nextID, farr, tree, trainingSet,
                  sample, pr, prs, testVars, jsonVars, critVars,
                 storeVars,
                 confVars,
                 lockVars,
                 shuffleVars,
                 partitionVars>>

\* a *float64 or *int field that is nil
NoMemo == [set |-> FALSE, v |-> {}]

Memo(v) == [set |-> TRUE, v |-> v]

\* NewMemoryIntensive and NewCPUIntensive
NewDataset(impl, samples) ==
    [impl |-> impl, entropy |-> NoMemo, count |-> NoMemo,
     samples |-> samples, criteria |-> <<>>]

\* cpuIntensiveSubsettingDataset.iterateOnDataset with a lambda that keeps
\* the sample and returns true, nil: the samples the lambda was called
\* with, from position i on, and whether an error is returned
RECURSIVE iterateOnDataset(_, _, _)
iterateOnDataset(samples, criteria, i) ==
    IF i > Len(samples) THEN [samples |-> <<>>, err |-> FALSE]
    ELSE LET failing == {k \in 1..Len(criteria) :
                            \/ SatisfiedBy(criteria[k], samples[i]).err
                            \/ ~SatisfiedBy(criteria[k], samples[i]).ok}
             first == CHOOSE k \in failing : \A j \in failing : k <= j
             rest == iterateOnDataset(samples, criteria, i + 1)
         IN  IF failing = {}
             THEN [samples |-> <<samples[i]>> \o rest.samples, err |-> rest.err]
             ELSE IF SatisfiedBy(criteria[first], samples[i]).err
             THEN [samples |-> <<>>, err |-> TRUE]
             ELSE rest

\* the loop of memoryIntensiveSubsettingDataset.SubsetWith from position i
\* on: the samples appended and whether an error is returned
RECURSIVE subsetSamples(_, _, _)
subsetSamples(samples, fc, i) ==
    IF i > Len(samples) THEN [samples |-> <<>>, err |-> FALSE]
    ELSE LET sb == SatisfiedBy(fc, samples[i])
             rest == subsetSamples(samples, fc, i + 1)
         IN  IF sb.err THEN [samples |-> <<>>, err |-> TRUE]
             ELSE IF sb.ok
             THEN [samples |-> <<samples[i]>> \o rest.samples, err |-> rest.err]
             ELSE rest

\* faulty variant of ChainWith: the new criterion goes to the end of the
\* chain
ChainWithLast(fc, criteria) == Append(criteria, fc)

\* append([]feature.Criterion{fc}, s.criteria...)
ChainWith(fc, criteria) == <<fc>> \o criteria

\* SubsetWith of both implementations: the Dataset returned and whether an
\* error is returned instead
DatasetSubsetWith(d, fc) ==
    IF d.impl = "memory"
    THEN LET r == subsetSamples(d.samples, fc, 1)
         IN  [d |-> [NewDataset("memory", r.samples) EXCEPT
                        !.criteria = ChainWith(fc, d.criteria)],
              err |-> r.err]
    ELSE [d |-> [NewDataset("cpu", d.samples) EXCEPT
                    !.criteria = ChainWith(fc, d.criteria)],
          err |-> FALSE]

\* Samples of both implementations
DatasetSamples(d) ==
    IF d.impl = "memory" THEN [samples |-> d.samples, err |-> FALSE]
    ELSE iterateOnDataset(d.samples, d.criteria, 1)

\* Count of both implementations: the int returned (the error returned is
\* always nil) and the instance after the call, which in the cpu-intensive
\* one remembers the count
DatasetCount(d) ==
    IF d.impl = "memory" THEN [count |-> Len(d.samples), d |-> d]
    ELSE IF d.count.set THEN [count |-> d.count.v, d |-> d]
    ELSE LET length == Len(iterateOnDataset(d.samples, d.criteria, 1).samples)
         IN  [count |-> length, d |-> [d EXCEPT !.count = Memo(length)]]

\* the key of featureValueCounts for a value: the string, or the float64
\* formatted with %v
ValueString(val) == val.v

\* featureValueCounts after the loop over the samples: for each key the
\* number of samples with that value of f (0: no entry)
FeatureValueCounts(samples, f) ==
    [k \in 0..MaxFloat |->
        Cardinality({i \in 1..Len(samples) :
                        /\ ValueFor(samples[i], f).type # "nil"
                        /\ ValueString(ValueFor(samples[i], f)) = k})]

RECURSIVE GCD(_, _)
GCD(a, b) == IF b = 0 THEN a ELSE GCD(b, a % b)

RECURSIVE GCDOf(_)
GCDOf(S) ==
    IF S = {} THEN 0
    ELSE LET x == CHOOSE y \in S : TRUE IN GCD(x, GCDOf(S \ {x}))

\* the sum of -p * ln(p) over the probabilities p = v / count of the
\* entries of featureValueCounts.  The real number is held as the
\* distribution it is the entropy of: for each probability (counts over
\* their greatest common divisor), how many values have it; the entropy 0
\* of no value and of a single value is {}
ShannonEntropy(counts) ==
    LET keys == {k \in DOMAIN counts : counts[k] > 0}
        g == GCDOf({counts[k] : k \in keys})
    IN  IF Cardinality(keys) <= 1 THEN {}
        ELSE {<<c, Cardinality({k \in keys : counts[k] = c * g})>> :
                c \in {counts[k] \div g : k \in keys}}

\* Entropy of both implementations: the float64 returned, whether an error
\* is returned, and the instance after the call
DatasetEntropy(d, f) ==
    IF d.entropy.set THEN [result |-> d.entropy.v, err |-> FALSE, d |-> d]
    ELSE LET it == DatasetSamples(d)
             result == ShannonEntropy(FeatureValueCounts(it.samples, f))
         IN  IF it.err \/ \E i \in 1..Len(it.samples) :
                             ValueFor(it.samples[i], f).type = "error"
             THEN [result |-> {}, err |-> TRUE, d |-> d]
             ELSE [result |-> result, err |-> FALSE,
                   d |-> [d EXCEPT !.entropy = Memo(result)]]

\* the call dsets[i].SubsetWith(ctx, fc)
CallSubsetWith(i, fc) ==
    /\ i <= Len(dsets) /\ Len(dsets) < MaxDatasets
    /\ LET r == DatasetSubsetWith(dsets[i], fc)
       IN  IF r.err
           THEN /\ dcall' = [NoCall EXCEPT !.op = "SubsetWith error",
                                           !.d = i, !.fc = fc]
                /\ UNCHANGED dsets
           ELSE /\ dsets' = Append(dsets, r.d)
                /\ dcall' = [NoCall EXCEPT !.op = "SubsetWith", !.d = i,
                                           !.fc = fc, !.r = Len(dsets) + 1]
    /\ UNCHANGED datasetFrame

\* the call dsets[i].Count(ctx)
CallCount(i) ==
    /\ i <= Len(dsets)
    /\ dsets' = [dsets EXCEPT ![i] = DatasetCount(dsets[i]).d]
    /\ dcall' = [NoCall EXCEPT !.op = "Count", !.d = i,
                               !.r = DatasetCount(dsets[i]).count]
    /\ UNCHANGED datasetFrame

\* the call dsets[i].Entropy(ctx, f)
CallEntropy(i, f) ==
    /\ i <= Len(dsets)
    /\ LET r == DatasetEntropy(dsets[i], f)
       IN  /\ dsets' = [dsets EXCEPT ![i] = r.d]
           /\ dcall' = [NoCall EXCEPT
                           !.op = IF r.err THEN "Entropy error" ELSE "Entropy",
                           !.d = i, !.f = f, !.h = r.result]
    /\ UNCHANGED datasetFrame

\* the values a sample of the input gives a feature: none or a string for
\* the discrete feature 1, a float64 for the continuous feature 2
DatasetValues(f) ==
    IF IsContinuousFeature(f) THEN [type : {"float64"}, v : 1..MaxValue]
    ELSE {NilValue} \cup [type : {"string"}, v : 1..MaxValue]

DatasetSampleSet ==
    {s \in [1..NFeatures -> UNION {DatasetValues(f) : f \in 1..NFeatures}] :
        \A f \in 1..NFeatures : s[f] \in DatasetValues(f)}

\* the criteria datasets are refined with
DatasetCriteria ==
    {NewDiscreteCriterion(1, 1), NewContinuousCriterion(2, NegInf, MaxValue)}

InitDataset ==
    /\ IdleProgram("dataset")
    /\ nodes = NoNodes /\ nextID = 0
    /\ tree = NewTree(0)
    /\ sample = NoSample
    /\ pr = NoPredict
    /\ IdleLib("dataset")
    /\ \E impl \in {"memory", "cpu"},
          samples \in SeqUpTo(DatasetSampleSet, MaxSamples) :
            dsets = <<NewDataset(impl, samples)>>
    /\ dcall = NoCall

NextDataset ==
    \E i \in 1..MaxDatasets :
        \/ \E fc \in DatasetCriteria : CallSubsetWith(i, fc)
        \/ CallCount(i)
        \/ \E f \in 1..NFeatures : CallEntropy(i, f)

SpecDataset == InitDataset /\ [][NextDataset]_vars

(***************************************************************************)
(* tree.NodeStore: memoryNodeStore and redisStore, called by several       *)
(* goroutines.  In memoryNodeStore a call takes the lock in one step and   *)
(* runs its function (for Create, one pass of its loop) in the next; in    *)
(* redisStore every redis command is one step.  A node is known by the     *)
(* goroutine that built it and a number (goroutine 0: a node built         *)
(* elsewhere, as ReadJSONTree stores them).                                *)
(***************************************************************************)
storeFrame == <<backend, mq, redisVars, pushed, completed, avail, ret, wk,
                mpc, ctxDone, nodes, nextID, farr, tree, trainingSet,
                sample, pr, prs, testVars, jsonVars, critVars, datasetVars,
               confVars,
               lockVars,
               shuffleVars,
               partitionVars>>

Clients == 1..NClients

NodeIDs == 1..MaxNodeID

\* the node number k built by goroutine c
NodeOf(c, k) == [c |-> c, k |-> k]

\* a client's call: where it is (pc), the method, the node and the id handed
\* over (for Create, the id set on the node), the Creates called so far,
\* and for a call that returned: whether a node was returned, the error
\* ("" for nil) and whether the id was in the store when it was looked up
NoClient ==
    [pc |-> "idle", op |-> "", n |-> NodeOf(0, 0), id |-> 0, k |-> 0,
     found |-> FALSE, err |-> "", absent |-> FALSE]

\* the call returns
Return(c, id, found, err, absent) ==
    [cl EXCEPT ![c].pc = "done", ![c].n = NodeOf(0, 0), ![c].id = id,
               ![c].found = found, ![c].err = err, ![c].absent = absent]

\* the nodes Create returned, less those at id that were deleted or
\* replaced by another node
LiveLess(id, n) == {e \in live : ~(e.id = id /\ e.n # n)}

\* the calls a client may make next: Create of a new node, Store of a node
\* Create returned or of a node built elsewhere with any id, Delete and Get
\* with any id
Calls(c) ==
    {[op |-> "Create", n |-> NodeOf(c, cl[c].k + 1), id |-> 0] :
        x \in {y \in {0} : cl[c].k < MaxCreates}}
        \cup {[op |-> "Store", n |-> e.n, id |-> e.id] : e \in live}
        \cup {[op |-> "Store", n |-> NodeOf(0, id), id |-> id] : id \in NodeIDs}
        \cup {[op |-> o, n |-> NodeOf(0, 0), id |-> id] :
                o \in {"Delete", "Get"}, id \in NodeIDs}

\* the call starts
Call(c, call, pc) ==
    [cl EXCEPT ![c] = [NoClient EXCEPT
                         !.pc = pc, !.op = call.op, !.n = call.n,
                         !.id = call.id,
                         !.k = IF call.op = "Create" THEN cl[c].k + 1
                               ELSE cl[c].k]]

\* ---- memoryNodeStore ----
\* withLock and withRLock: the lock is taken (Get takes it for reading)
MNSLock(c) ==
    /\ store.impl = "memory" /\ cl[c].pc \in {"idle", "done"}
    /\ \E call \in Calls(c) :
        /\ store.w = 0
        /\ call.op = "Get" \/ store.r = {}
        /\ cl' = Call(c, call, "locked")
        /\ store' = IF call.op = "Get"
                    THEN [store EXCEPT !.r = store.r \cup {c}]
                    ELSE [store EXCEPT !.w = c]
    /\ UNCHANGED <<live, storeFrame>>

\* withLock and withRLock: the ctx is done, the call returns ctx.Err()
\* without running its function
MNSCtxDone(c) ==
    /\ store.impl = "memory" /\ cl[c].pc \in {"idle", "done"}
    /\ \E call \in Calls(c) :
        cl' = [Call(c, call, "done") EXCEPT
                 ![c].n = NodeOf(0, 0), ![c].id = 0, ![c].err = "ctx"]
    /\ UNCHANGED <<store, live, storeFrame>>

\* faulty variant of Taken: the id is never found taken
NeverTaken(ns, id) == FALSE

\* _, taken = mns.nodes[n.ID]
Taken(ns, id) == id \in DOMAIN ns

\* one pass of the loop of Create: generateRandomNodeID, the lookup, and
\* when the id is not taken the insertion and the return
MNSCreate(c) ==
    /\ store.impl = "memory"
    /\ cl[c].pc = "locked" /\ cl[c].op = "Create"
    /\ store.nextID < MaxNodeID
    /\ LET id == store.nextID + 1
       IN  IF Taken(store.nodes, id)
           THEN /\ store' = [store EXCEPT !.nextID = id]
                /\ cl' = [cl EXCEPT ![c].id = id]
                /\ UNCHANGED live
           ELSE /\ store' = [store EXCEPT !.nextID = id, !.w = 0,
                                          !.nodes = MapPut(@, id, cl[c].n)]
                /\ cl' = Return(c, id, FALSE, "", FALSE)
                /\ live' = LiveLess(id, cl[c].n)
                             \cup {[n |-> cl[c].n, id |-> id]}
    /\ UNCHANGED storeFrame

\* the ctx is done at the start of a pass: Create returns ctx.Err()
MNSCreateCtxDone(c) ==
    /\ store.impl = "memory"
    /\ cl[c].pc = "locked" /\ cl[c].op = "Create"
    /\ store' = [store EXCEPT !.w = 0]
    /\ cl' = Return(c, cl[c].id, FALSE, "ctx", FALSE)
    /\ UNCHANGED <<live, storeFrame>>

\* Store: mns.nodes[n.ID] = n
MNSStore(c) ==
    /\ store.impl = "memory"
    /\ cl[c].pc = "locked" /\ cl[c].op = "Store"
    /\ store' = [store EXCEPT !.w = 0,
                              !.nodes = MapPut(@, cl[c].id, cl[c].n)]
    /\ cl' = Return(c, cl[c].id, FALSE, "", FALSE)
    /\ live' = LiveLess(cl[c].id, cl[c].n)
    /\ UNCHANGED storeFrame

\* Delete: delete(mns.nodes, n.ID)
MNSDelete(c) ==
    /\ store.impl = "memory"
    /\ cl[c].pc = "locked" /\ cl[c].op = "Delete"
    /\ store' = [store EXCEPT !.w = 0, !.nodes = MapDel(@, cl[c].id)]
    /\ cl' = Return(c, cl[c].id, FALSE, "", FALSE)
    /\ live' = LiveLess(cl[c].id, NodeOf(0, 0))
    /\ UNCHANGED storeFrame

\* Get: n = mns.nodes[id], returned with a nil error
MNSGet(c) ==
    /\ store.impl = "memory"
    /\ cl[c].pc = "locked" /\ cl[c].op = "Get"
    /\ store' = [store EXCEPT !.r = store.r \ {c}]
    /\ cl' = Return(c, cl[c].id, cl[c].id \in DOMAIN store.nodes, "",
                    cl[c].id \notin DOMAIN store.nodes)
    /\ UNCHANGED <<live, storeFrame>>

\* ---- redisStore ----
\* one pass of the loop of Create: randString, Encode, SetNX, and the check
\* of the ctx (done: whether ctx.Err() is not nil)
RSCreate(c) ==
    /\ store.impl = "redis"
    /\ \E call \in Calls(c), id \in NodeIDs, done \in BOOLEAN :
        /\ \/ cl[c].pc \in {"idle", "done"} /\ call.op = "Create"
           \/ cl[c].pc = "create" /\ call = [op |-> "Create", n |-> cl[c].n,
                                             id |-> 0]
        /\ LET cc == IF cl[c].pc = "create" THEN cl
                     ELSE Call(c, call, "create")
               ok == id \notin DOMAIN store.nodes
           IN  /\ store' = IF ok
                           THEN [store EXCEPT !.nodes = MapPut(@, id, cc[c].n)]
                           ELSE store
               /\ cl' = IF done
                        THEN [cc EXCEPT ![c].pc = "done", ![c].id = id,
                                        ![c].n = NodeOf(0, 0),
                                        ![c].err = "ctx"]
                        ELSE IF ok
                        THEN [cc EXCEPT ![c].pc = "done", ![c].id = id,
                                        ![c].n = NodeOf(0, 0)]
                        ELSE [cc EXCEPT ![c].id = id]
               /\ live' = IF ok /\ ~done
                          THEN LiveLess(id, cc[c].n)
                                 \cup {[n |-> cc[c].n, id |-> id]}
                          ELSE live
    /\ UNCHANGED storeFrame

\* Store: Encode and Set
RSStore(c) ==
    /\ store.impl = "redis" /\ cl[c].pc \in {"idle", "done"}
    /\ \E call \in Calls(c) :
        /\ call.op = "Store"
        /\ store' = [store EXCEPT !.nodes = MapPut(@, call.id, call.n)]
        /\ cl' = [Call(c, call, "done") EXCEPT ![c].n = NodeOf(0, 0)]
        /\ live' = LiveLess(call.id, call.n)
    /\ UNCHANGED storeFrame

\* Delete: Del
RSDelete(c) ==
    /\ store.impl = "redis" /\ cl[c].pc \in {"idle", "done"}
    /\ \E call \in Calls(c) :
        /\ call.op = "Delete"
        /\ store' = [store EXCEPT !.nodes = MapDel(@, call.id)]
        /\ cl' = Call(c, call, "done")
        /\ live' = LiveLess(call.id, NodeOf(0, 0))
    /\ UNCHANGED storeFrame

\* Get: rs.rc.Get(key).Result(), which for a key that does not exist
\* returns the error redis.Nil, and Decode
RSGet(c) ==
    /\ store.impl = "redis" /\ cl[c].pc \in {"idle", "done"}
    /\ \E call \in Calls(c) :
        /\ call.op = "Get"
        /\ cl' = [Call(c, call, "done") EXCEPT
                    ![c].found = call.id \in DOMAIN store.nodes,
                    ![c].err = IF call.id \in DOMAIN store.nodes THEN ""
                               ELSE "retrieving node",
                    ![c].absent = call.id \notin DOMAIN store.nodes]
    /\ UNCHANGED <<store, live, storeFrame>>

\* NewMemoryNodeStore or redisstore.New on an empty database
InitStore ==
    /\ IdleProgram("store")
    /\ nodes = NoNodes /\ nextID = 0
    /\ tree = NewTree(0)
    /\ sample = NoSample
    /\ pr = NoPredict
    /\ IdleLib("store")
    /\ \E impl \in {"memory", "redis"} : store = [NoStore EXCEPT !.impl = impl]
    /\ cl = [c \in Clients |-> NoClient]
    /\ live = {}

NextStore ==
    \E c \in Clients :
        \/ MNSLock(c) \/ MNSCtxDone(c) \/ MNSCreate(c) \/ MNSCreateCtxDone(c)
        \/ MNSStore(c) \/ MNSDelete(c) \/ MNSGet(c)
        \/ RSCreate(c) \/ RSStore(c) \/ RSDelete(c) \/ RSGet(c)

SpecStore == InitStore /\ [][NextStore]_vars

(***************************************************************************)
(* withLock and withRLock of memQueue and of memoryNodeStore (the same     *)
(* code in both).  A call starts a helper goroutine that takes the mutex   *)
(* and then either hands it over on the channel gotLock or, when the ctx   *)
(* is done, releases it; the caller waits for gotLock or for the ctx.  A   *)
(* step is one step of a caller or of a helper, or the cancellation of a   *)
(* caller's ctx.                                                           *)
(***************************************************************************)
lockFrame == <<backend, mq, redisVars, pushed, completed, avail, ret, wk,
               mpc, ctxDone, nodes, nextID, farr, tree, trainingSet, sample,
               pr, prs, testVars, jsonVars, critVars, datasetVars, storeVars,
               confVars,
              shuffleVars,
              partitionVars>>

Callers == 1..NCallers

\* a caller before its first call: k counts its calls, mode is "w" for
\* withLock and "r" for withRLock, ran tells whether f has run in the call
NoLockCall == [pc |-> "idle", k |-> 0, mode |-> "w", ran |-> FALSE]

\* the helper goroutine of a call that was not made
NoHelper == [pc |-> "none", mode |-> "w"]

\* the k-th call of caller c holds the mutex (its helper took it, or the
\* caller was handed it)
Holds(m, c, k) == m.w = <<c, k>> \/ <<c, k>> \in m.r

\* mq.lock.Lock() / RLock() can return
CanLock(m, mode) ==
    IF mode = "w" THEN m.w = <<>> /\ m.r = {} ELSE m.w = <<>>

\* mq.lock.Lock() / RLock() by the k-th call of c
LockMutex(m, mode, c, k) ==
    IF mode = "w" THEN [m EXCEPT !.w = <<c, k>>]
    ELSE [m EXCEPT !.r = m.r \cup {<<c, k>>}]

\* faulty variant of UnlockMutex: the mutex is not released
KeepMutex(m, mode, c, k) == m

\* mq.lock.Unlock() / RUnlock() by the k-th call of c
UnlockMutex(m, mode, c, k) ==
    IF mode = "w" THEN [m EXCEPT !.w = <<>>]
    ELSE [m EXCEPT !.r = m.r \ {<<c, k>>}]

\* the helper's release in its ctx.Done case
HelperUnlock(m, mode, c, k) == UnlockMutex(m, mode, c, k)

\* withLock / withRLock is called: gotLock is made and the helper started
LCall(c, mode) ==
    /\ backend = "lock"
    /\ lcalls[c].pc \in {"idle", "ok", "ctxerr"}
    /\ lcalls[c].k < MaxLockCalls
    /\ lcalls' = [lcalls EXCEPT ![c] = [pc |-> "select", k |-> lcalls[c].k + 1,
                                        mode |-> mode, ran |-> FALSE]]
    /\ helper' = [helper EXCEPT ![c][lcalls[c].k + 1] =
                     [pc |-> "lock", mode |-> mode]]
    /\ UNCHANGED <<mu, cctx, lockFrame>>

\* the helper: mq.lock.Lock() / RLock() returns
LHelperLock(c, k) ==
    /\ backend = "lock"
    /\ helper[c][k].pc = "lock"
    /\ CanLock(mu, helper[c][k].mode)
    /\ mu' = LockMutex(mu, helper[c][k].mode, c, k)
    /\ helper' = [helper EXCEPT ![c][k].pc = "select"]
    /\ UNCHANGED <<lcalls, cctx, lockFrame>>

\* the helper sends on gotLock and the caller receives: the caller goes on
\* to f with the deferred Unlock registered (select may take this case also
\* when the ctx is done)
LHandOver(c, k) ==
    /\ backend = "lock"
    /\ lcalls[c].pc = "select" /\ lcalls[c].k = k
    /\ helper[c][k].pc = "select"
    /\ helper' = [helper EXCEPT ![c][k].pc = "end"]
    /\ lcalls' = [lcalls EXCEPT ![c].pc = "run"]
    /\ UNCHANGED <<mu, cctx, lockFrame>>

\* the helper's select takes <-ctx.Done(): Unlock / RUnlock
LHelperCtxDone(c, k) ==
    /\ backend = "lock"
    /\ helper[c][k].pc = "select"
    /\ cctx[c]
    /\ mu' = HelperUnlock(mu, helper[c][k].mode, c, k)
    /\ helper' = [helper EXCEPT ![c][k].pc = "end"]
    /\ UNCHANGED <<lcalls, cctx, lockFrame>>

\* the caller's select takes <-ctx.Done(): return ctx.Err()
LCallerCtxDone(c) ==
    /\ backend = "lock"
    /\ lcalls[c].pc = "select"
    /\ cctx[c]
    /\ lcalls' = [lcalls EXCEPT ![c].pc = "ctxerr"]
    /\ UNCHANGED <<mu, helper, cctx, lockFrame>>

\* f(ctx) runs
LRun(c) ==
    /\ backend = "lock"
    /\ lcalls[c].pc = "run"
    /\ lcalls' = [lcalls EXCEPT ![c].pc = "unlock", ![c].ran = TRUE]
    /\ UNCHANGED <<mu, helper, cctx, lockFrame>>

\* the deferred Unlock / RUnlock; the call returns what f returned
LReturn(c) ==
    /\ backend = "lock"
    /\ lcalls[c].pc = "unlock"
    /\ mu' = UnlockMutex(mu, lcalls[c].mode, c, lcalls[c].k)
    /\ lcalls' = [lcalls EXCEPT ![c].pc = "ok"]
    /\ UNCHANGED <<helper, cctx, lockFrame>>

\* the ctx of a caller is cancelled or reaches its deadline
LCancel(c) ==
    /\ backend = "lock"
    /\ ~cctx[c]
    /\ cctx' = [cctx EXCEPT ![c] = TRUE]
    /\ UNCHANGED <<mu, lcalls, helper, lockFrame>>

InitLock ==
    /\ IdleProgram("lock")
    /\ nodes = NoNodes /\ nextID = 0 /\ tree = NewTree(0)
    /\ sample = NoSample /\ pr = NoPredict
    /\ IdleLib("lock")
    /\ mu = NoMutex
    /\ lcalls = [c \in Callers |-> NoLockCall]
    /\ helper = [c \in Callers |-> [k \in 1..MaxLockCalls |-> NoHelper]]
    /\ cctx = [c \in Callers |-> FALSE]

\* the steps of the goroutines of the calls that are under way
LockStep(c) ==
    \/ \E k \in 1..MaxLockCalls :
        LHelperLock(c, k) \/ LHandOver(c, k) \/ LHelperCtxDone(c, k)
    \/ LCallerCtxDone(c) \/ LRun(c) \/ LReturn(c)

NextLock ==
    \/ \E c \in Callers, mode \in {"w", "r"} : LCall(c, mode)
    \/ \E c \in Callers : LockStep(c)
    \/ \E c \in Callers : LCancel(c)

SpecLock == InitLock /\ [][NextLock]_vars

\* goroutines are scheduled fairly
SpecLockLive ==
    /\ SpecLock
    /\ \A c \in Callers :
        /\ \A k \in 1..MaxLockCalls :
            /\ WF_vars(LHelperLock(c, k))
            /\ WF_vars(LHandOver(c, k) \/ LHelperCtxDone(c, k))
        /\ WF_vars(LCallerCtxDone(c) \/ LHandOver(c, lcalls[c].k))
        /\ WF_vars(LRun(c))
        /\ WF_vars(LReturn(c))

(***************************************************************************)
(* shuffleFeatures on the array that the tasks of one partition share.     *)
(* BranchOut gives every task of the selected partition the one slice      *)
(* stAvailableFeatures, the in-memory queue hands the tasks over as they   *)
(* are, and each worker that runs one of them shuffles the slice in place  *)
(* without synchronisation: the reads and writes of the swaps of two       *)
(* workers interleave in any order.                                        *)
(***************************************************************************)
shuffleFrame == <<backend, mq, redisVars, pushed, completed, avail, ret, wk,
                  mpc, ctxDone, nodes, nextID, farr, tree, trainingSet,
                  sample, pr, prs, testVars, jsonVars, critVars, datasetVars,
                  storeVars, confVars, lockVars,
                 partitionVars>>

\* the duplicate-free lists of two or more features a partition's tasks get
SiblingFeatures ==
    {s \in UNION {[1..k -> 1..NFixedFeatures] : k \in 2..NFixedFeatures} :
        \A i, j \in 1..Len(s) : i # j => s[i] # s[j]}

\* a worker that has not pulled its task yet; a and b hold what the swap
\* read from features[randIndex] and features[n-1]
NoShuffle == [pc |-> "pending", n |-> 0, randIndex |-> 0, a |-> 0, b |-> 0]

\* how many times feature f is in the list s
CountOf(s, f) == Cardinality({i \in 1..Len(s) : s[i] = f})

\* the worker pulls its task and enters shuffleFeatures(task.AvailableFeatures)
ShStart(w) ==
    /\ backend = "shuffle"
    /\ shuf[w].pc = "pending"
    /\ shuf' = [shuf EXCEPT ![w] = [NoShuffle EXCEPT
                  !.pc = "rand", !.n = Len(stAvailableFeatures)]]
    /\ UNCHANGED <<stAvailableFeatures, pushedFeatures, shuffleFrame>>

\* for len(features) > 0: randIndex := r.Intn(n); after the loop BranchOut
\* goes on with the list
ShRand(w) ==
    /\ backend = "shuffle"
    /\ shuf[w].pc = "rand"
    /\ IF shuf[w].n = 0
       THEN shuf' = [shuf EXCEPT ![w].pc = "select"]
       ELSE \E r \in 1..NFixedFeatures :
              /\ r <= shuf[w].n
              /\ shuf' = [shuf EXCEPT ![w].pc = "read1", ![w].randIndex = r]
    /\ UNCHANGED <<stAvailableFeatures, pushedFeatures, shuffleFrame>>

\* the swap reads features[randIndex]
ShRead1(w) ==
    /\ backend = "shuffle"
    /\ shuf[w].pc = "read1"
    /\ shuf' = [shuf EXCEPT ![w].pc = "read2",
                            ![w].a = stAvailableFeatures[shuf[w].randIndex]]
    /\ UNCHANGED <<stAvailableFeatures, pushedFeatures, shuffleFrame>>

\* the swap reads features[n-1]
ShRead2(w) ==
    /\ backend = "shuffle"
    /\ shuf[w].pc = "read2"
    /\ shuf' = [shuf EXCEPT ![w].pc = "write1",
                            ![w].b = stAvailableFeatures[shuf[w].n]]
    /\ UNCHANGED <<stAvailableFeatures, pushedFeatures, shuffleFrame>>

\* the swap writes features[n-1]
ShWrite1(w) ==
    /\ backend = "shuffle"
    /\ shuf[w].pc = "write1"
    /\ stAvailableFeatures' =
          [stAvailableFeatures EXCEPT ![shuf[w].n] = shuf[w].a]
    /\ shuf' = [shuf EXCEPT ![w].pc = "write2"]
    /\ UNCHANGED <<pushedFeatures, shuffleFrame>>

\* the swap writes features[randIndex]; features = features[:n-1]
ShWrite2(w) ==
    /\ backend = "shuffle"
    /\ shuf[w].pc = "write2"
    /\ stAvailableFeatures' =
          [stAvailableFeatures EXCEPT ![shuf[w].randIndex] = shuf[w].b]
    /\ shuf' = [shuf EXCEPT ![w].pc = "rand", ![w].n = shuf[w].n - 1]
    /\ UNCHANGED <<pushedFeatures, shuffleFrame>>

InitShuffle ==
    /\ IdleProgram("shuffle")
    /\ nodes = NoNodes /\ nextID = 0 /\ tree = NewTree(0)
    /\ sample = NoSample /\ pr = NoPredict
    /\ IdleLib("shuffle")
    /\ stAvailableFeatures \in SiblingFeatures
    /\ pushedFeatures = stAvailableFeatures
    /\ shuf = [w \in Workers |-> NoShuffle]

NextShuffle ==
    \E w \in Workers :
        \/ ShStart(w) \/ ShRand(w)
        \/ ShRead1(w) \/ ShRead2(w)
        \/ ShWrite1(w) \/ ShWrite2(w)

SpecShuffle == InitShuffle /\ [][NextShuffle]_vars

(***************************************************************************)
(* NewDiscretePartition and NewContinuousPartition on a dataset held in    *)
(* memory.  The information gain of a partition depends on the labels of   *)
(* the samples, which are left open here: of the candidates of             *)
(* newRangePartition any may be the one with the largest gain, and a       *)
(* pruner that is not NoPruner may answer either way.  The operators of    *)
(* the continuous partition therefore give the set of the partitions the   *)
(* call may return.                                                        *)
(***************************************************************************)
partitionFrame == <<backend, mq, redisVars, pushed, completed, avail, ret, wk,
                    mpc, ctxDone, nodes, nextID, farr, tree, trainingSet,
                    sample, pr, prs, testVars, jsonVars, critVars,
                    datasetVars, storeVars, confVars, lockVars, shuffleVars>>

\* the discrete and the continuous feature partitions are made for
DiscreteF == CHOOSE f \in 1..NFeatures : ~IsContinuousFeature(f)

ContinuousF == CHOOSE f \in 1..NFeatures : IsContinuousFeature(f)

\* the float64 values samples give the continuous feature: even, so that
\* the midpoint of two of them, and of one of them and 0, is a number of
\* the model
PartitionFloats == {2 * k : k \in 1..(MaxValue + 1)}

\* the samples of the datasets: each may lack a value for each feature
PartitionSampleSet ==
    {s \in [1..NFeatures -> SampleValues \cup [type : {"float64"},
                                               v : PartitionFloats]] :
        /\ \A f \in 1..NFeatures \ {DiscreteF, ContinuousF} : s[f] = NilValue
        /\ s[DiscreteF] \in {NilValue} \cup [type : {"string"}, v : 1..MaxValue]
        /\ s[ContinuousF] \in {NilValue} \cup [type : {"float64"},
                                               v : PartitionFloats]}

\* DiscreteFeature.AvailableValues: a list of distinct values
AvailableValueLists ==
    {av \in SeqUpTo(1..MaxValue, MaxValue) :
        \A i, j \in 1..Len(av) : i # j => av[i] # av[j]}

\* what p.Prune may return: NoPruner never prunes
PruneAnswers(p) == IF p = "NoPruner" THEN {FALSE} ELSE BOOLEAN

\* *Partition: nil, or the tasks of the partition
NoPartition == [nil |-> TRUE, Tasks |-> <<>>]

SomePartition(tasks) == [nil |-> FALSE, Tasks |-> tasks]

\* the queue.Task of a partition: the criterion of its node and its dataset
PartitionTask(fc, ds) == [FeatureCriterion |-> fc, Dataset |-> ds]

\* NewDiscretePartition's loop over availableValues from position i on: the
\* tasks appended
RECURSIVE discreteTasks(_, _, _, _)
discreteTasks(s, f, availableValues, i) ==
    IF i > Len(availableValues) THEN <<>>
    ELSE LET fc == NewDiscreteCriterion(f, availableValues[i])
         IN  <<PartitionTask(fc, DatasetSubsetWith(s, fc).d)>>
                \o discreteTasks(s, f, availableValues, i + 1)

\* faulty variant of WithUndefinedTask: the task of the undefined criterion
\* comes first
UndefinedTaskFirst(tasks, s, f) ==
    <<PartitionTask(NewUndefinedCriterion(f), s)>> \o tasks

\* result.Tasks = append(result.Tasks, task) with the task of the undefined
\* criterion, whose dataset is s
WithUndefinedTask(tasks, s, f) ==
    Append(tasks, PartitionTask(NewUndefinedCriterion(f), s))

\* NewDiscretePartition when p.Prune returns ok
NewDiscretePartition(s, f, availableValues, ok) ==
    IF ok THEN NoPartition
    ELSE SomePartition(WithUndefinedTask(
             discreteTasks(s, f, availableValues, 1), s, f))

\* fmt.Sprintf("%v", v) of a value of a sample: the text of the number or
\* of the string; "<nil>", which is the text of no value of the model, is
\* held as -1
FormatValue(val) == IF val.type = "nil" THEN 0 - 1 ELSE val.v

\* memoryIntensiveSubsettingDataset.FeatureValues from sample i on: the
\* values not encountered before, in the order of the samples
RECURSIVE FeatureValues(_, _, _, _)
FeatureValues(samples, f, i, encountered) ==
    IF i > Len(samples) THEN <<>>
    ELSE LET v == ValueFor(samples[i], f)
         IN  IF FormatValue(v) \in encountered
             THEN FeatureValues(samples, f, i + 1, encountered)
             ELSE <<v>> \o FeatureValues(samples, f, i + 1,
                                         encountered \cup {FormatValue(v)})

\* vf, _ := v.(float64): the zero value for a value that is no float64
AsFloat64(val) == IF val.type = "float64" THEN val.v ELSE 0

\* sort.Float64s
RECURSIVE SortFloat64s(_)
SortFloat64s(fs) ==
    IF Len(fs) = 0 THEN <<>>
    ELSE LET m == CHOOSE i \in 1..Len(fs) : \A j \in 1..Len(fs) : fs[i] <= fs[j]
         IN  <<fs[m]>> \o SortFloat64s(RemoveAt(fs, m))

\* newRangePartition's floatValues after the sort
floatValues(s, f) ==
    LET sfvs == FeatureValues(s.samples, f, 1, {})
    IN  SortFloat64s([i \in 1..Len(sfvs) |-> AsFloat64(sfvs[i])])

\* the two tasks newRangePartition makes for a threshold
RangeTasks(s, f, a, threshold, b) ==
    <<PartitionTask(NewContinuousCriterion(f, a, threshold),
                    DatasetSubsetWith(s, NewContinuousCriterion(f, a, threshold)).d),
      PartitionTask(NewContinuousCriterion(f, threshold, b),
                    DatasetSubsetWith(s, NewContinuousCriterion(f, threshold, b)).d)>>

\* newRangePartition: nil with fewer than 2 floatValues, else the partition
\* of one of the thresholds (floatValues[i] + vf) / 2.0
newRangePartition(s, f, a, b) ==
    LET fv == floatValues(s, f)
    IN  IF Len(fv) < 2 THEN {NoPartition}
        ELSE {SomePartition(RangeTasks(s, f, a, (fv[i] + fv[i + 1]) \div 2, b)) :
                i \in 1..(Len(fv) - 1)}

\* newContinuousPartition: nil when the initial partition is nil or pruned,
\* else the tasks of the subpartitions of its two tasks, or the task itself
\* where the subpartition is nil, from left to right
RECURSIVE newContinuousPartition(_, _, _, _, _)
newContinuousPartition(s, f, a, b, p) ==
    LET resultTasks(task) ==
            {IF subpartition.nil THEN <<task>> ELSE subpartition.Tasks :
               subpartition \in
                 newContinuousPartition(task.Dataset, f,
                                        task.FeatureCriterion.a,
                                        task.FeatureCriterion.b, p)}
    IN  UNION {
          IF initialPartition.nil THEN {NoPartition}
          ELSE UNION {
                 IF ok THEN {NoPartition}
                 ELSE {SomePartition(t1 \o t2) :
                         t1 \in resultTasks(initialPartition.Tasks[1]),
                         t2 \in resultTasks(initialPartition.Tasks[2])}
                 : ok \in PruneAnswers(p)}
          : initialPartition \in newRangePartition(s, f, a, b)}

\* NewContinuousPartition
NewContinuousPartition(s, f, p) ==
    UNION {
      IF result.nil THEN {NoPartition}
      ELSE {IF ok THEN NoPartition
            ELSE SomePartition(WithUndefinedTask(result.Tasks, s, f)) :
              ok \in PruneAnswers(p)}
      : result \in newContinuousPartition(s, f, NegInf, PosInf, p)}

\* no call made yet
NoPartitionCall == [op |-> "none", pruned |-> FALSE, result |-> NoPartition]

\* the call NewDiscretePartition(ctx, s, f, label, p)
CallNewDiscretePartition(ok) ==
    /\ backend = "partition"
    /\ ok \in PruneAnswers(pin.p)
    /\ partCall' = [op |-> "NewDiscretePartition", pruned |-> ok,
                    result |-> NewDiscretePartition(pin.s, DiscreteF,
                                                    pin.availableValues, ok)]
    /\ UNCHANGED <<pin, partitionFrame>>

\* the call NewContinuousPartition(ctx, s, f, label, p)
CallNewContinuousPartition ==
    /\ backend = "partition"
    /\ \E result \in NewContinuousPartition(pin.s, ContinuousF, pin.p) :
          partCall' = [op |-> "NewContinuousPartition", pruned |-> result.nil,
                       result |-> result]
    /\ UNCHANGED <<pin, partitionFrame>>

InitPartition ==
    /\ IdleProgram("partition")
    /\ nodes = NoNodes /\ nextID = 0 /\ tree = NewTree(0)
    /\ sample = NoSample /\ pr = NoPredict
    /\ IdleLib("partition")
    /\ \E samples \in SeqUpTo(PartitionSampleSet, MaxPartitionSamples),
          availableValues \in AvailableValueLists,
          p \in {"NoPruner", "PrunerFunc"} :
            pin = [s |-> NewDataset("memory", samples),
                   availableValues |-> availableValues, p |-> p]
    /\ partCall = NoPartitionCall

NextPartition ==
    \/ \E ok \in BOOLEAN : CallNewDiscretePartition(ok)
    \/ CallNewContinuousPartition

SpecPartition == InitPartition /\ [][NextPartition]_vars

(***************************************************************************)
(* Claims about the queue (checked under Spec).                            *)
(***************************************************************************)
\* a worker's Pull returns its task in this step (redis)
RPullReturns(w) == rpc[w] = "pull_unlock" /\ rpc'[w] = "work"

\* C2: in the in-memory queue every pushed task id is in exactly one of the
\* states pending, running or completed (absent): no id is pending and
\* running at once, none is held twice in the pending buffer, and the
\* pending counter equals the number of tasks held in the pending buffer.
C2_MemOneState ==
    backend = "mem" =>
        /\ MemPendingIDs(mq) \cap MemRunningIDs(mq) = {}
        /\ \A i, j \in 1..Len(mq.pendingTasks) :
              (i # j /\ MemPendingSlots(mq)[i] # 0)
                  => MemPendingSlots(mq)[i] # MemPendingSlots(mq)[j]
        /\ mq.pending =
              Cardinality({i \in 1..Len(mq.pendingTasks) :
                              MemPendingSlots(mq)[i] # 0})

\* C3: in the redis queue |pending| + |running| + |completed| = |pushed| at
\* all times, completed being the ids for which Complete returned nil.
C3_RedisConservation ==
    backend = "redis" =>
        Cardinality(rpending) + Cardinality(rrunning) + Cardinality(completed)
            = Cardinality(pushed)

\* C4: in the redis queue a task returned by Pull was made pending (by Push,
\* by Drop or by the reaper) since Pull last returned it, so no two Pull
\* calls return it without a Drop in between, and Pull never returns a task
\* whose Complete has returned nil.
C4_RedisSinglePull ==
    [][\A w \in RWorkers :
          RPullReturns(w) => (rarg[w] \in avail /\ rarg[w] \notin completed)]_vars

\* C5: for both backends Count never returns (0, 0) while some pushed task
\* has not been completed, also not while a Pull is moving a task from
\* pending to running.
C5_CountAtomic ==
    /\ (backend = "mem" /\ ret.op = "Count" /\ ret.p = 0 /\ ret.r = 0)
          => pushed \subseteq completed
    /\ (backend = "redis" /\ RedisCount = <<0, 0>>)
          => pushed \subseteq completed

\* C5 witness: a redis Pull has just moved the only task from pending to
\* running and has not returned yet; Count gives (0, 1).
C5_Witness ==
    /\ backend = "redis"
    /\ \E w \in RWorkers : rpc[w] = "pull_unlock" /\ rarg[w] \in rrunning
    /\ RedisCount = <<0, 1>>

\* C6: Push of a task whose id is pending or running returns an error and
\* leaves the pending and running sets unchanged (both backends).
C6_PushDuplicateFails ==
    [][/\ (backend = "mem" /\ ret'.op = "Push"
            /\ ret'.id \in MemPendingIDs(mq) \cup MemRunningIDs(mq))
          => (ret'.err /\ mq' = mq)
       /\ \A p \in RProcs :
            (rpc[p] \in {"seed", "work"} /\ rpc'[p] = "push_sadd")
                => rarg'[p] \notin rpending \cup rrunning]_vars

\* C7: Pull either returns no task and leaves the queue unchanged (always
\* so when nothing is pending), or returns one task that was pending and is
\* counted as running when Pull returns.
C7_PullMoves ==
    [][/\ (backend = "mem" /\ ret'.op = "Pull") =>
            IF ret'.id = 0
            THEN mq' = mq /\ mq.pending = 0
            ELSE /\ ret'.id \in MemPendingIDs(mq)
                 /\ ret'.id \in MemRunningIDs(mq')
                 /\ mq'.pending = mq.pending - 1
       /\ \A w \in RWorkers :
            RPullReturns(w) => (rarg[w] \in avail /\ rarg[w] \in rrunning')]_vars

\* C8: Drop moves a running task back to pending and returns nil; Drop of an
\* id that is not running (e.g. of a completed task, as workTask does after
\* Complete) changes neither set and returns nil.  For the redis queue this
\* is the critical section of Drop, run once the task's lock was acquired.
C8_DropFrame ==
    [][/\ (backend = "mem" /\ ret'.op = "Drop") =>
            /\ ~ret'.err
            /\ IF ret'.id \in MemRunningIDs(mq)
               THEN /\ ret'.id \notin MemRunningIDs(mq')
                    /\ ret'.id \in MemPendingIDs(mq')
                    /\ mq'.pending = mq.pending + 1
                    /\ MemRunningIDs(mq') = MemRunningIDs(mq) \ {ret'.id}
               ELSE mq' = mq
       /\ \A p \in RProcs :
            (rpc[p] = "drop_move" /\ rpc'[p] # "drop_move") =>
                IF rarg[p] \in rrunning
                THEN /\ rrunning' = rrunning \ {rarg[p]}
                     /\ rpending' = rpending \cup {rarg[p]}
                     /\ rpc'[p] = "drop_delmark"
                ELSE /\ UNCHANGED <<rpending, rrunning>>
                     /\ rpc'[p] = "drop_unlock_noop"
       /\ \A p \in RProcs :
            \* the only error of Drop is the lock that could not be acquired
            (rpc[p] \in {"drop_unlock", "drop_unlock_noop"}
                /\ rpc'[p] = AfterDrop(p))
                => UNCHANGED <<rpending, rrunning>>]_vars

\* C8 witness: a worker's deferred Drop found its task, already completed,
\* not running and is about to return nil.
C8_Witness ==
    /\ backend = "redis"
    /\ \E w \in RWorkers : rpc[w] = "drop_unlock_noop" /\ rarg[w] \in completed

(***************************************************************************)
(* Claims about growth runs (checked under SpecGrow and SpecGrowLive).     *)
(***************************************************************************)
WaitForNil == mpc \in {"wf_nil", "exit_ok"}

WorkNil(w) == wk[w].pc = "ret_nil"

Drained == MemCount(mq) = <<0, 0>> /\ MemPendingIDs(mq) = {}

\* the tasks a growth can push at most, the root having f features
RECURSIVE MaxTasks(_)
MaxTasks(f) == IF f = 0 THEN 1 ELSE 1 + Branch * MaxTasks(f - 1)

\* C1: in a growth run on the in-memory queue and node store, whenever
\* WaitFor has returned nil or a worker's Work has returned nil, every task
\* ever pushed has been completed, no task is pending or running, and no
\* task is pushed afterwards.  (It holds in runs with backend errors and
\* cancellation as well.)
C1_GrowthDone ==
    /\ []((WaitForNil \/ \E w \in Workers : WorkNil(w))
            => (pushed \subseteq completed /\ Drained))
    /\ [][(WaitForNil \/ \E w \in Workers : WorkNil(w))
            => (pushed' = pushed /\ mq' = mq)]_vars

\* C1 witness: WaitFor and every worker returned nil after a growth that
\* pushed the root, its children and their children.
C1_Witness ==
    /\ mpc = "wf_nil"
    /\ \A w \in Workers : WorkNil(w)
    /\ Cardinality(pushed) = MaxTasks(NFeatures)

\* C9: after Seed, with fair scheduling and no backend errors or
\* cancellation, eventually the queue is drained and every worker's Work has
\* returned nil; the number of tasks ever pushed is bounded, and every child
\* task BranchOut makes has fewer available features than its parent.
C9_GrowthTerminates ==
    /\ <>(Drained /\ \A w \in Workers : WorkNil(w))
    /\ [](Cardinality(pushed) <= MaxTasks(NFeatures))
    /\ [](\A w \in Workers : \A j \in 1..Len(wk[w].tasks) :
            Len(farr[wk[w].tasks[j].AF]) < Len(farr[wk[w].task.AF]))

\* C9 witness: every worker returned nil after the largest growth.
C9_Witness ==
    /\ \A w \in Workers : WorkNil(w)
    /\ Drained
    /\ nextID = MaxTasks(NFeatures)

\* C10: when BranchOut returns an error or the push of a child fails, for
\* any cause, Complete is not called for the parent task and, when Work
\* returns the error, the parent task is pending and not running.
C10_FailedTaskRequeued ==
    [][\A w \in Workers :
          (wk[w].pc = "drop" /\ wk[w].err \in {"branchout", "push"}
              /\ wk'[w].pc = "ret_err")
          => /\ wk[w].task.ID \in MemPendingIDs(mq')
             /\ wk[w].task.ID \notin MemRunningIDs(mq')
             /\ wk[w].task.ID \notin completed']_vars

\* a worker's Work has returned a non-nil error
WorkErr(w) == wk[w].pc \in {"ret_err", "exit_err"}

\* C11: in the grow command, once a worker's Work has returned a non-nil
\* error WaitFor does not return nil: growth is not reported as finished
\* after a worker failed.  (That cancel() is then called and that the other
\* workers return is what the code does next, see WCancel and WPull.)
C11_WorkerErrorFailsGrowth ==
    [][((\E w \in Workers : WorkErr(w)) /\ mpc = "waitfor")
          => mpc' # "wf_nil"]_vars

\* Seed returns its tree in this step
SeedReturnsTree == mpc = "seed_push" /\ mpc' = "waitfor"

\* C12: when Seed returns a tree without error, the node store (empty before
\* the call) holds exactly one node, with empty parent id, no criterion, no
\* prediction and no children; the queue holds exactly one task, pending,
\* whose id is that node's id and whose dataset and available features are
\* the ones passed to Seed; the tree's root id is that node's id.
C12_SeedRoot ==
    [][SeedReturnsTree =>
          /\ DOMAIN nodes' = {tree'.RootID}
          /\ nodes'[tree'.RootID] =
                [ParentID |-> 0, SubtreeIDs |-> <<>>, Prediction |-> FALSE,
                 FeatureCriterion |-> NilCriterion, SubtreeFeature |-> 0]
          /\ MemCount(mq') = <<1, 0>>
          /\ MemPullTask(mq') =
                [ID |-> tree'.RootID, Dataset |-> trainingSet, AF |-> 0]
          /\ farr' = farr /\ farr[0] = Features]_vars

\* C12 witness: Seed has returned the tree and no worker has pulled yet.
C12_Witness ==
    /\ mpc = "waitfor" /\ tree.RootID = 1
    /\ \A w \in Workers : wk[w].pc = "pull"
    /\ MemCount(mq) = <<1, 0>>

\* C13: when the push of the root task fails, Seed returns the error with
\* the root node deleted again: the node store holds the nodes it held
\* before the call (none) and the queue is as it was (new).
C13_SeedFailureCleansUp ==
    [][(mpc = "seed_delete" /\ mpc' = "seed_err")
          => (nodes' = NoNodes /\ mq' = NewMemQueue)]_vars

\* the pcs inside BranchOut
InBranchOut == {"bo_start", "bo_select", "bo_build", "bo_create", "bo_store"}

\* BranchOut returns to workTask in this step
BranchOutReturns(w) ==
    wk[w].pc \in InBranchOut /\ wk'[w].pc \notin InBranchOut

\* a failure of the deferred Store is BranchOut's error when it had none
StoreFailureReported(w) ==
    (wk[w].pc = "bo_store" /\ wk[w].mctx /\ wk'[w].pc \notin InBranchOut)
        => wk'[w].err # ""

\* C14 as stated: on every return path of BranchOut, error paths included,
\* NodeStore.Store is called for the task's node just before BranchOut
\* returns, and a failure of Store is reported as BranchOut's error when no
\* earlier error occurred.
C14_StoreOnEveryReturn ==
    [][\A w \in Workers :
          /\ BranchOutReturns(w) => wk[w].pc = "bo_store"
          /\ StoreFailureReported(w)]_vars

\* C14 amended: when tree.NewPredictionFromSet fails BranchOut returns that
\* error at once, without calling Store and with the node untouched; on
\* every other return path, error paths included, Store is called for the
\* task's node just before BranchOut returns, and a failure of Store is
\* reported as BranchOut's error when no earlier error occurred.
C14_StoreAfterPrediction ==
    [][\A w \in Workers :
          /\ BranchOutReturns(w) =>
                \/ wk[w].pc = "bo_store"
                \/ /\ wk[w].pc = "bo_start" /\ wk'[w].err # ""
                   /\ nodes' = nodes
          /\ StoreFailureReported(w)]_vars

\* C14 witness: BranchOut had built its tasks without error, the deferred
\* Store failed and BranchOut returned that error.
C14_Witness ==
    \E w \in Workers :
        /\ wk[w].pc = "drop" /\ wk[w].err = "branchout"
        /\ wk[w].tasks # <<>> /\ wk[w].mctx

\* the elements of a slice
Range(seq) == {seq[j] : j \in 1..Len(seq)}

\* C15: at every moment of a growth run every id in the subtree id list of
\* a node held in the node store is the id of a node held in the store (the
\* nodes of a task's children are all created before the parent gets their
\* ids and is stored).
C15_SubtreeIDsResolve ==
    \A id \in DOMAIN nodes : Range(nodes[id].SubtreeIDs) \subseteq DOMAIN nodes

\* C15 witness: a task's children have been created, the parent carries
\* their ids and its Store is about to be called.
C15_Witness ==
    \E w \in Workers :
        /\ wk[w].pc = "bo_store"
        /\ Len(nodes[wk[w].task.ID].SubtreeIDs) = Branch
        /\ Len(wk[w].tasks) = Branch

\* the ids reachable from the ids in a set over the subtree id lists
RECURSIVE ReachableFrom(_, _)
ReachableFrom(ns, ids) ==
    LET next == ids \cup UNION {Range(ns[i].SubtreeIDs) : i \in ids \cap DOMAIN ns}
    IN  IF next = ids THEN ids ELSE ReachableFrom(ns, next)

\* growth has finished: WaitFor or a worker's Work has returned nil
GrowthFinished == WaitForNil \/ \E w \in Workers : WorkNil(w)

\* C16: after growth has finished the tree's root id is the id of a node in
\* the store and, for every node n reachable from the root, every id in
\* n's subtree id list is the id of a node in the store whose parent id is
\* n's id, also when a task was dropped and run again.
C16_TreeWellFormed ==
    GrowthFinished =>
        /\ tree.RootID \in DOMAIN nodes
        /\ \A n \in ReachableFrom(nodes, {tree.RootID}) :
              /\ n \in DOMAIN nodes
              /\ \A c \in Range(nodes[n].SubtreeIDs) :
                    c \in DOMAIN nodes /\ nodes[c].ParentID = n

\* C16 witness: WaitFor returned nil for a tree with children, one of whose
\* tasks had failed in a worker, was dropped and was run again.
C16_Witness ==
    /\ mpc = "wf_nil"
    /\ \E w \in Workers : WorkErr(w)
    /\ Len(nodes[tree.RootID].SubtreeIDs) = Branch

\* the strict ancestors of a node over the parent ids
RECURSIVE Ancestors(_, _)
Ancestors(ns, id) ==
    IF id \notin DOMAIN ns \/ ns[id].ParentID = 0
    THEN {}
    ELSE {ns[id].ParentID} \cup Ancestors(ns, ns[id].ParentID)

\* the tasks BranchOut has made and that have not been pulled: being pushed
\* by workTask, or pending
TasksToRun ==
    (Range(mq.pendingTasks) \ {NilTask})
        \cup UNION {Range(wk[w].tasks) : w \in Workers}

\* C17: in a tree grown by concurrent workers the feature chosen at a node
\* is absent from the available features of every task in that node's
\* subtree, so that along every path from the root each feature is a node's
\* splitting feature at most once.
C17_FeatureOncePerPath ==
    /\ \A t \in TasksToRun : \A a \in Ancestors(nodes, t.ID) :
          nodes[a].SubtreeFeature \notin Range(farr[t.AF])
    /\ \A n \in DOMAIN nodes : \A a \in Ancestors(nodes, n) :
          nodes[n].SubtreeFeature = 0
              \/ nodes[n].SubtreeFeature # nodes[a].SubtreeFeature

\* the tree under a node, without the node ids: the node's criterion,
\* prediction and subtree feature and the trees under its children, in order
RECURSIVE TreeUnder(_, _)
TreeUnder(ns, id) ==
    [FeatureCriterion |-> ns[id].FeatureCriterion,
     Prediction |-> ns[id].Prediction,
     SubtreeFeature |-> ns[id].SubtreeFeature,
     Subtrees |-> [j \in 1..Len(ns[id].SubtreeIDs) |->
                     TreeUnder(ns, ns[id].SubtreeIDs[j])]]

\* the tree a single worker grows from a dataset whose partitions are known
\* and have different information gains: BranchOut applied to the task
\* (fc, ds, features), then to the tasks it returns, one after the other
RECURSIVE SequentialTree(_, _, _)
SequentialTree(fc, ds, features) ==
    LET parts == CHOOSE p \in Partitions(ds, features) : TRUE
        sel == selectPartition(parts, 1, NilPartition, 1)
        leaf == Len(features) = 0 \/ sel[1] = NilPartition
        f == features[sel[2]]
    IN  [FeatureCriterion |-> fc,
         Prediction |-> TRUE,
         SubtreeFeature |-> IF leaf THEN 0 ELSE f,
         Subtrees |->
            IF leaf THEN <<>>
            ELSE [j \in 1..sel[1].n |->
                    SequentialTree(
                        PartitionCriterion(f, j, sel[1].n),
                        PartitionDataset(ds, PartitionCriterion(f, j, sel[1].n)),
                        RemoveAt(features, sel[2]))]]

\* C18: for a fixed dataset in which no two features of a node have the
\* same information gain, the tree grown by concurrent workers (node
\* structure, criteria and predictions, up to the node ids) is the tree a
\* single worker grows.
C18_SameTreeAsSingleWorker ==
    GrowthFinished =>
        TreeUnder(nodes, tree.RootID)
            = SequentialTree(NilCriterion, trainingSet, FixedFeatures)

\* the sample's value can be read for every feature
SampleReadable == \A f \in DOMAIN sample : sample[f].type # "error"

\* positions in a subtree id list of the children carrying a discrete or a
\* continuous criterion that the sample satisfies
SatisfiedPositions(ids) ==
    {j \in 1..Len(ids) :
        /\ nodes[ids[j]].FeatureCriterion.kind \in {"discrete", "continuous"}
        /\ SatisfiedBy(nodes[ids[j]].FeatureCriterion, sample).ok}

\* positions of the children carrying an Undefined criterion
UndefinedPositions(ids) ==
    {j \in 1..Len(ids) : nodes[ids[j]].FeatureCriterion.kind = "undefined"}

\* C19: at an internal node whose children are all in the store, for a
\* sample whose values can be read, a pass of Predict's loop descends into
\* the first child, in subtree id order, whose discrete or continuous
\* criterion the sample satisfies; it descends into a child with an
\* Undefined criterion only when there is no such child, wherever the
\* Undefined child is in the list; with neither, Predict fails with an
\* error naming the node's subtree feature.
C19_PredictChildSelection ==
    [][(/\ pr.pc = "loop"
        /\ nodes[pr.n].SubtreeFeature # 0
        /\ Range(nodes[pr.n].SubtreeIDs) \subseteq DOMAIN nodes
        /\ SampleReadable
        /\ pr'.err # "retrieving node")
       => LET ids == nodes[pr.n].SubtreeIDs
              sat == SatisfiedPositions(ids)
              und == UndefinedPositions(ids)
          IN  IF sat # {}
              THEN /\ pr'.pc = "loop"
                   /\ pr'.n = ids[CHOOSE j \in sat : \A k \in sat : j <= k]
              ELSE IF und # {}
              THEN /\ pr'.pc = "loop"
                   /\ \E j \in und : pr'.n = ids[j]
              ELSE /\ pr'.pc = "done"
                   /\ pr'.err = "sample does not satisfy any subtree criteria"
                   /\ pr'.feature = nodes[pr.n].SubtreeFeature
                   /\ ~pr'.prediction]_vars

\* C19 witness: Predict has descended from the root into its third child,
\* whose discrete criterion the sample satisfies, past an Undefined first
\* child and an unsatisfied second child.
C19_Witness ==
    /\ pr.pc = "loop"
    /\ pr.n = 4
    /\ Len(nodes[1].SubtreeIDs) = 3
    /\ Range(nodes[1].SubtreeIDs) \subseteq DOMAIN nodes
    /\ nodes[2].FeatureCriterion.kind = "undefined"
    /\ nodes[3].FeatureCriterion.kind = "continuous"
    /\ nodes[4].FeatureCriterion.kind = "discrete"
    /\ SampleReadable

\* the samples over the features handed to Seed whose values can be read:
\* each feature is absent, a string or a float64, among them values no
\* criterion of a grown tree mentions
ReadableSamples ==
    [Range(farr[0]) -> {v \in SampleValues : v.type # "error"}]

\* C20: after growth has finished, Predict on the grown tree ends at a leaf
\* for every sample whose values can be read, with a prediction or with
\* ErrCannotPredictFromSample, never with the error that the sample does
\* not satisfy any subtree criteria.
C20_PredictReachesLeaf ==
    GrowthFinished =>
        \A s \in ReadableSamples :
            LET r == Predict(nodes, tree.RootID, s)
            IN  /\ r.err \in {"", "ErrCannotPredictFromSample"}
                /\ nodes[r.n].SubtreeFeature = 0

\* C20 witness: growth has finished with a tree whose root has children and
\* Predict takes a sample without a value for the root's subtree feature
\* into the root's Undefined child.
C20_Witness ==
    /\ mpc = "wf_nil"
    /\ nodes[tree.RootID].SubtreeFeature # 0
    /\ \E s \in ReadableSamples :
          /\ s[nodes[tree.RootID].SubtreeFeature] = NilValue
          /\ LET r == Predict(nodes, tree.RootID, s)
             IN  /\ r.err = ""
                 /\ r.n # tree.RootID
                 /\ Ancestors(nodes, r.n) # {}

MostProbable(p) ==
    IF \A v \in DOMAIN p : p[v] = 0 THEN {0}
    ELSE {v \in DOMAIN p : \A u \in DOMAIN p : p[u] <= p[v]}

\* what Predict returns for the i-th sample of the dataset handed to Test
TestPredict(i) == Predict(nodes, tree.RootID, testSet[i])

\* the samples for which Predict returns ErrCannotPredictFromSample
Unpredictable ==
    {i \in 1..Len(testSet) :
        TestPredict(i).err = "ErrCannotPredictFromSample"}

\* the samples for which Predict returns another error, or a prediction
\* while the sample's label value cannot be read
OtherError ==
    {i \in 1..Len(testSet) :
        \/ TestPredict(i).err \notin {"", "ErrCannotPredictFromSample"}
        \/ /\ TestPredict(i).err = ""
           /\ ValueFor(testSet[i], Label).type = "error"}

\* C22: when Test returns without an error no sample met another error,
\* the int returned is the number of samples for which Predict returned
\* ErrCannotPredictFromSample, the value PredictedValue gave for each other
\* sample is a most probable value of the leaf's prediction, and the
\* float64 returned is the number of samples whose label value is that
\* value, divided by the dataset's count; when Test returns an error both
\* results are zero, and it returns one whenever a sample meets another
\* error.
C22_TestCounts ==
    tst.pc = "done" =>
        IF tst.err = ""
        THEN /\ OtherError = {}
             /\ tst.unpredictable = Cardinality(Unpredictable)
             /\ Len(tst.picked) = Len(testSet)
             /\ \A i \in 1..Len(testSet) :
                    /\ tst.picked[i].ok <=> i \notin Unpredictable
                    /\ tst.picked[i].ok =>
                          tst.picked[i].value
                              \in MostProbable(probs[TestPredict(i).n])
             /\ tst.num =
                    Cardinality({i \in 1..Len(testSet) :
                        /\ tst.picked[i].ok
                        /\ ValueFor(testSet[i], Label) =
                               [type |-> "string",
                                v |-> tst.picked[i].value]})
             /\ tst.den = Len(testSet)
        ELSE /\ tst.num = 0 /\ tst.den = 1 /\ tst.unpredictable = 0
             /\ tst.err # "backend" => OtherError # {}

\* C22 witness: Test has returned without an error for two samples, one
\* unpredictable and one predicted correctly.
C22_Witness ==
    /\ tst.pc = "done" /\ tst.err = ""
    /\ Len(testSet) = 2
    /\ tst.unpredictable = 1
    /\ tst.num = 1 /\ tst.den = 2

\* ---- C23 ----
\* the samples Predict is compared on: a value (nil, a string, a float64)
\* for each of the features of the training set
JSONSamples ==
    [1..NFeatures ->
        {NilValue} \cup [type : {"string"}, v : 1..MaxValue]
                   \cup [type : {"float64"}, v : 0..MaxFloat]]

\* ReadJSONTree has returned nil for the document WriteJSONTree wrote
ReadBack ==
    /\ rd.pc = "done" /\ rd.err = ""
    /\ doc = WriteJSONTree(nodes, tree)

\* the tree read has the root id and the label of the tree written
SameHeader == rtree.RootID = tree.RootID /\ rtree.Label = JSONLabel

\* every node of the tree written is in the store read into, with the same
\* parent id, subtree ids, criterion, splitting feature and prediction
SameNodes ==
    \A i \in 1..Len(doc.nodes) :
        /\ doc.nodes[i].id \in DOMAIN rstore
        /\ rstore[doc.nodes[i].id] = nodes[doc.nodes[i].id]

\* Predict returns the same on both trees for every sample
SamePredictions ==
    \A s \in JSONSamples :
        Predict(rstore, rtree.RootID, s) = Predict(nodes, tree.RootID, s)

\* C23: a tree written as JSON and read back into a fresh in-memory node
\* store has the same root id and label, holds every node reachable from
\* the root with the same fields, and Predict gives the same result on both
\* trees for every sample.
C23_JSONRoundTrip ==
    ReadBack => SameHeader /\ SameNodes /\ SamePredictions

\* ---- C24 ----
\* C24: when ReadJSONTree returns an error, the node store holds no node
\* of the input and the root id and the label of the tree are what they
\* were before the call.
C24_FailedReadAdmitsNothing ==
    (rd.pc = "done" /\ rd.err # "") =>
        (rstore = NoNodes /\ rtree = EmptyTree)

\* ---- C25 ----
\* the value the sample gives the feature of the criterion
CriterionValue == ValueFor(sample, crit.feature)

\* x is in the interval from a to b of the criterion: a is minus infinity
\* or a <= x, and b is plus infinity or x < b
InInterval(x) ==
    /\ (crit.a = NegInf \/ crit.a <= x)
    /\ (crit.b = PosInf \/ x < crit.b)

\* C25: a continuous criterion with bounds a and b is satisfied by a sample
\* with the float64 value x exactly when (a is minus infinity or a <= x) and
\* (b is plus infinity or x < b), whatever finite or infinite bounds it was
\* built with; for a sample with no value or a value that is not a float64
\* it returns false and no error.
C25_ContinuousSatisfiedBy ==
    csat.pc = "done" =>
        /\ CriterionValue.type = "float64" =>
              /\ ~csat.err
              /\ csat.ok <=> InInterval(CriterionValue.v)
        /\ CriterionValue.type \in {"nil", "string"} =>
              /\ ~csat.err
              /\ ~csat.ok

\* ---- C26 ----
\* the samples and the count of the dataset d refined with fc1 and then
\* with fc2
RefinedTwice(d, fc1, fc2) ==
    LET dd == DatasetSubsetWith(DatasetSubsetWith(d, fc1).d, fc2).d
    IN  [samples |-> DatasetSamples(dd).samples,
         count |-> DatasetCount(dd).count,
         err |-> \/ DatasetSubsetWith(d, fc1).err
                 \/ DatasetSubsetWith(DatasetSubsetWith(d, fc1).d, fc2).err
                 \/ DatasetSamples(dd).err]

\* the criteria the two orders are compared on
RefiningCriteria ==
    <<NewDiscreteCriterion(1, 1), NewContinuousCriterion(2, NegInf, MaxValue),
      NewUndefinedCriterion(1), NewDiscreteCriterion(1, 2),
      NewContinuousCriterion(2, MaxValue, PosInf)>>

\* C26: in both in-memory implementations a call of SubsetWith leaves the
\* samples, the count and the criteria chain of the dataset it is called on
\* (and of every other dataset) as they were, the dataset it returns has
\* the new criterion followed by the chain of the original as its chain,
\* and refining either of the two with two criteria in one order or the
\* other selects the same samples and gives the same count.
C26_RefinementLeavesOriginal ==
    [][Len(dsets') > Len(dsets) =>
        /\ \A i \in 1..Len(dsets) :
            /\ DatasetSamples(dsets'[i]) = DatasetSamples(dsets[i])
            /\ DatasetCount(dsets'[i]).count = DatasetCount(dsets[i]).count
            /\ dsets'[i].criteria = dsets[i].criteria
        /\ dsets'[dcall'.r].criteria =
               <<dcall'.fc>> \o dsets[dcall'.d].criteria
        /\ dsets'[dcall'.r].impl = dsets[dcall'.d].impl
        /\ \A i \in {dcall'.d, dcall'.r}, j \in 1..Len(RefiningCriteria),
              k \in 1..Len(RefiningCriteria) :
                j < k =>
                    RefinedTwice(dsets'[i], RefiningCriteria[j],
                                 RefiningCriteria[k]) =
                        RefinedTwice(dsets'[i], RefiningCriteria[k],
                                     RefiningCriteria[j])]_vars

\* a dataset of two samples was refined twice, with two criteria that
\* each leave out a sample the other selects
C26_Witness ==
    /\ Len(dsets) = MaxDatasets
    /\ dcall.op = "SubsetWith" /\ dcall.d = 2 /\ dcall.r = 3
    /\ Len(dsets[3].criteria) = 2
    /\ dsets[3].criteria[1] # dsets[3].criteria[2]
    /\ DatasetCount(dsets[1]).count = 2
    /\ DatasetCount(dsets[2]).count = 1
    /\ DatasetCount(dsets[3]).count = 0

\* ---- C27 ----
\* C27: whatever calls came before, a call of Entropy on a dataset returns
\* the entropy of the values the samples of that dataset give the feature
\* handed to this call, never the entropy of another feature.
C27_EntropyOfTheFeature ==
    dcall.op = "Entropy" =>
        dcall.h = ShannonEntropy(
                    FeatureValueCounts(DatasetSamples(dsets[dcall.d]).samples,
                                       dcall.f))

\* ---- C28 ----
\* client c takes a step of a call of Create
CreateStep(c) == cl'[c] # cl[c] /\ cl'[c].op = "Create"

\* the call of Create of client c returns nil in this step
CreateReturns(c) ==
    CreateStep(c) /\ cl'[c].pc = "done" /\ cl'[c].err = ""

\* C28: in both stores and whatever other calls of Create, Store and
\* Delete run at the same time, a step of Create changes or removes no node
\* that is in the store, the id Create returns with was not in the store
\* and is now that of the new node, and the nodes that were created and
\* not deleted or replaced since are in the store under ids that differ
\* from one another.
C28_CreateGivesFreshID ==
    [][/\ \A c \in Clients :
            /\ CreateStep(c) =>
                \A id \in DOMAIN store.nodes :
                    /\ id \in DOMAIN store'.nodes
                    /\ store'.nodes[id] = store.nodes[id]
            /\ CreateReturns(c) =>
                /\ cl'[c].id \notin DOMAIN store.nodes
                /\ cl'[c].id \in DOMAIN store'.nodes
                /\ store'.nodes[cl'[c].id] = NodeOf(c, cl'[c].k)
       /\ \A e1 \in live', e2 \in live' :
            /\ e1.id \in DOMAIN store'.nodes
            /\ store'.nodes[e1.id] = e1.n
            /\ e1 # e2 => e1.id # e2.id]_vars

\* two goroutines have each created a node and both nodes are in the
\* store, one of them having created another node before
C28_Witness ==
    /\ Cardinality(live) = 2
    /\ \E e1 \in live, e2 \in live : e1.n.c = 1 /\ e2.n.c = 2
    /\ \E c \in Clients : cl[c].k = MaxCreates

\* ---- C29 ----
\* C29: in both stores, a call of Get whose context is live and whose id
\* is not in the store when it is looked up (never created, or deleted)
\* returns no node and no error.
C29_GetOfAbsentID ==
    \A c \in Clients :
        (cl[c].pc = "done" /\ cl[c].op = "Get" /\ cl[c].absent
            /\ cl[c].err # "ctx")
            => (~cl[c].found /\ cl[c].err = "")

\* ---- C30 ----
\* the reaper's Drop moves its task from the running set to the pending set
ReaperMoves ==
    /\ rpc[Reaper] = "drop_move"
    /\ rarg[Reaper] \in rrunning
    /\ rarg[Reaper] \notin rrunning'
    /\ rarg[Reaper] \in rpending'

\* C30: in the redis queue, the reaper moves a task from the running set
\* back to the pending set only when the running mark of the task does not
\* exist at that moment.
C30_ReaperSparesMarkedTasks ==
    [][ReaperMoves => rarg[Reaper] \notin rmark]_vars

\* ---- C31 ----
\* C31: a redis queue created with taskMaxRun = 0 operates normally: its
\* process goes on running (no goroutine of the queue panics) and its
\* reaper is never moving a task from the running set to the pending set.
C31_ZeroMaxRunOperates ==
    taskMaxRun = 0 =>
        /\ \A p \in RProcs : rpc[p] # "panic"
        /\ rpc[Reaper] \notin {"drop_move", "drop_delmark"}

\* ---- C37 ----
\* the pcs at which a process runs the release of withLockFor
ReleasePcs ==
    {"pull_unlock", "pull_unlock_fail", "comp_unlock", "drop_unlock",
     "drop_unlock_noop", "reap_unlock_live", "reap_unlock_timedout"}

\* the pcs at which a process sleeps between two attempts of withLockFor
WaitPcs == {"comp_wait", "drop_wait"}

\* the step is the expiry of a key: no process moves but the sleepers it wakes
ExpiryStep == \A p \in RProcs : rpc'[p] # rpc[p] => rpc[p] \in WaitPcs

\* C37: in the redis queue, the lock key of a task is deleted only by the
\* release of the process whose token it holds, or by its TTL: the release
\* of a process whose lock has expired leaves the lock that another process
\* took afterwards in place.
C37_ReleaseOnlyOwnLock ==
    [][\A id \in RTaskIDs :
          (rlock[id] # 0 /\ rlock'[id] # rlock[id])
              => \/ rpc[rlock[id]] \in ReleasePcs /\ rpc'[rlock[id]] # rpc[rlock[id]]
                 \/ ExpiryStep]_vars

\* a process is at its release for a task whose lock key holds the token
\* of another process
C37_Witness ==
    \E p \in RProcs :
        /\ rpc[p] \in ReleasePcs
        /\ rlock[rarg[p]] \notin {0, p}

\* ---- C39 ----
\* C39: in the redis queue, whenever the lock of a task is not held, the
\* task is not in the pending set with a running mark, and it has a
\* running mark only if it is in the running set.
C39_MarkFollowsRunning ==
    \A id \in RTaskIDs :
        rlock[id] = 0 =>
            /\ id \in rpending => id \notin rmark
            /\ id \in rmark => id \in rrunning

\* ---- C35 ----
\* the selection loop adopts, of the partitions parts, one that is not nil
\* and has the largest information gain, the first of these; none when
\* every partition is nil
SelectsFirstMaximum(parts) ==
    LET sel == selectPartition(parts, 1, NilPartition, 1)
        kept == {i \in 1..Len(parts) : parts[i] # NilPartition}
    IN  IF kept = {}
        THEN sel[1] = NilPartition
        ELSE /\ sel[2] \in kept
             /\ sel[1] = parts[sel[2]]
             /\ \A i \in kept :
                  /\ parts[i].informationGain <= sel[1].informationGain
                  /\ parts[i].informationGain = sel[1].informationGain
                        => sel[2] <= i

\* C35: BranchOut adopts, among the partitions of the available features
\* that are not nil, one with the largest information gain, the first in
\* the order of the loop; the features it gives the children are the
\* task's features but the feature of the adopted partition; and when every
\* partition is nil the node is left without subtree feature and children.
C35_SplitSelection ==
    [][\A w \in Workers :
         LET id == wk[w].task.ID
             features == farr[wk[w].task.AF]
         IN  /\ wk[w].pc = "bo_select" =>
                  \A parts \in Partitions(wk[w].task.Dataset, features) :
                     SelectsFirstMaximum(parts)
             /\ (wk[w].pc = "bo_build" /\ wk'[w].pc = "bo_create") =>
                  LET st == farr'[wk'[w].stAF]
                  IN  /\ Len(st) = Len(features) - 1
                      /\ Range(st) = Range(features) \ {nodes[id].SubtreeFeature}
             /\ (wk[w].pc = "bo_select" /\ wk'[w].pc = "bo_store"
                    /\ wk'[w].err = "") =>
                  /\ nodes'[id].SubtreeFeature = 0
                  /\ nodes'[id].SubtreeIDs = <<>>]_vars

\* ---- C36 ----
\* the pending tasks of the in-memory queue in the order Pull returns them:
\* the pending slots of the ring buffer from head on, wrapping around
Fifo(q) ==
    [i \in 1..q.pending |->
        q.pendingTasks[((q.head + i - 1) % Len(q.pendingTasks)) + 1]]

\* C36: in the in-memory queue, Push and Drop put their task behind the
\* tasks that are pending, Pull returns and removes the task that has been
\* pending for the longest time, Complete and Count leave the pending tasks
\* alone, and the ring buffer holds the pending tasks and nothing else, also
\* when it grows and when it wraps around.
C36_MemFifo ==
    [][backend = "mem" =>
        /\ ret'.op = "Push" =>
              \E t \in {Task(ret'.id, "any", 0)} :
                  Fifo(mq') = Append(Fifo(mq), t)
        /\ ret'.op = "Pull" =>
              IF mq.pending = 0
              THEN ret'.id = NilTask.ID /\ Fifo(mq') = <<>>
              ELSE ret'.id = Head(Fifo(mq)).ID /\ Fifo(mq') = Tail(Fifo(mq))
        /\ ret'.op = "Drop" =>
              IF ret'.id \in DOMAIN mq.runningTasks
              THEN Fifo(mq') = Append(Fifo(mq), mq.runningTasks[ret'.id])
              ELSE Fifo(mq') = Fifo(mq)
        /\ ret'.op \in {"Complete", "Count"} => Fifo(mq') = Fifo(mq)
        /\ mq'.pending <= Len(mq'.pendingTasks)
        /\ \A i \in 1..mq'.pending : Fifo(mq')[i] # NilTask
        /\ Cardinality({i \in 1..Len(mq'.pendingTasks) :
                            mq'.pendingTasks[i] # NilTask}) = mq'.pending]_vars

\* the buffer has grown to MaxPending slots and its pending tasks wrap
\* around its end
C36_Witness ==
    /\ backend = "mem"
    /\ Len(mq.pendingTasks) = MaxPending
    /\ mq.pending >= 2
    /\ mq.head + mq.pending > Len(mq.pendingTasks)
    /\ Fifo(mq)[1] # Fifo(mq)[2]

\* ---- C40 ----
\* a call of withLock / withRLock that is in or past f holds the mutex in
\* its mode (alone, when writing) until its deferred unlock
InCriticalSection(c) ==
    lcalls[c].pc \in {"run", "unlock"} =>
        IF lcalls[c].mode = "w"
        THEN mu.w = <<c, lcalls[c].k>> /\ mu.r = {}
        ELSE <<c, lcalls[c].k>> \in mu.r /\ mu.w = <<>>

\* C40: a call of withLock or withRLock either runs f while it holds the
\* mutex and has released it when it returns, or returns the ctx error
\* without having run f; and under every interleaving, cancellation
\* included, a mutex taken for a call (by its helper goroutine or handed to
\* the caller) is released again
C40_LockReleased ==
    /\ [](\A c \in Callers :
            /\ InCriticalSection(c)
            /\ lcalls[c].pc = "ctxerr" => ~lcalls[c].ran /\ cctx[c]
            /\ lcalls[c].pc = "ok" =>
                  lcalls[c].ran /\ ~Holds(mu, c, lcalls[c].k))
    /\ \A c \in Callers : \A k \in 1..MaxLockCalls :
          Holds(mu, c, k) ~> ~Holds(mu, c, k)

\* a call has returned the ctx error and its helper goroutine holds the
\* mutex, while another call waits for that mutex
C40_Witness ==
    \E c \in Callers :
        /\ lcalls[c].pc = "ctxerr"
        /\ helper[c][lcalls[c].k].pc = "select"
        /\ mu.w = <<c, lcalls[c].k>>
        /\ \E d \in Callers \ {c} :
              lcalls[d].pc = "select" /\ helper[d][lcalls[d].k].pc = "lock"

\* ---- C38 ----
\* C38: the work of another worker leaves a task's available features as
\* they were pushed: while no swap of shuffleFeatures is under way, the
\* array the tasks of a partition share holds every feature as many times
\* as when the tasks were pushed
C38_SiblingListKept ==
    (\A w \in Workers : shuf[w].pc \in {"pending", "rand", "select"}) =>
        \A f \in 1..NFixedFeatures :
            CountOf(stAvailableFeatures, f) = CountOf(pushedFeatures, f)

\* ---- C32 ----
\* the samples of d whose value for feature f is the string value
SamplesWithValue(d, f, value) ==
    LET Has(x) == ValueFor(x, f) = [type |-> "string", v |-> value]
    IN  SelectSeq(d.samples, Has)

\* C32: NewDiscretePartition returns, when the pruner does not prune, one
\* task per available value of the feature, in the order of the available
\* values, each with the discrete criterion of its value and the dataset
\* refined by it, and after them a single task with the undefined criterion
\* and the whole dataset; when the pruner prunes it returns no partition
\* and no task
C32_DiscretePartition ==
    partCall.op = "NewDiscretePartition" =>
        LET tasks == partCall.result.Tasks
            av == pin.availableValues
        IN  IF partCall.pruned
            THEN partCall.result.nil /\ tasks = <<>>
            ELSE /\ ~partCall.result.nil
                 /\ Len(tasks) = Len(av) + 1
                 /\ \A i \in 1..Len(av) :
                      /\ tasks[i].FeatureCriterion =
                            NewDiscreteCriterion(DiscreteF, av[i])
                      /\ tasks[i].Dataset.samples =
                            SamplesWithValue(pin.s, DiscreteF, av[i])
                      /\ tasks[i].Dataset.criteria =
                            <<tasks[i].FeatureCriterion>> \o pin.s.criteria
                 /\ \A i \in 1..Len(tasks) :
                      tasks[i].FeatureCriterion.kind = "undefined"
                          <=> i = Len(tasks)
                 /\ tasks[Len(tasks)].FeatureCriterion =
                        NewUndefinedCriterion(DiscreteF)
                 /\ tasks[Len(tasks)].Dataset = pin.s

\* a partition over two available values was kept; the dataset has a sample
\* for the second value and one without value
C32_Witness ==
    /\ partCall.op = "NewDiscretePartition" /\ ~partCall.pruned
    /\ Len(pin.availableValues) = 2
    /\ Len(partCall.result.Tasks[2].Dataset.samples) = 1
    /\ \E i \in 1..Len(pin.s.samples) :
          ValueFor(pin.s.samples[i], DiscreteF) = NilValue
    /\ pin.p = "PrunerFunc"

\* ---- C33, C34 ----
\* the float64 values the samples of d have for feature f
NumericValues(d, f) ==
    {ValueFor(d.samples[i], f).v :
        i \in {j \in 1..Len(d.samples) :
                  ValueFor(d.samples[j], f).type = "float64"}}

\* x is the midpoint of two values of V with no value of V between them
MidpointOfAdjacent(x, V) ==
    \E u, v \in V :
        /\ u < v /\ 2 * x = u + v
        /\ \A y \in V : ~(u < y /\ y < v)

\* the tasks with a continuous criterion tile the numbers in ascending
\* order, from minus infinity to plus infinity
TilesTheRange(tasks) ==
    /\ Len(tasks) >= 2
    /\ \A i \in 1..Len(tasks) : tasks[i].FeatureCriterion.kind = "continuous"
    /\ tasks[1].FeatureCriterion.a = NegInf
    /\ tasks[Len(tasks)].FeatureCriterion.b = PosInf
    /\ \A i \in 1..(Len(tasks) - 1) :
          /\ tasks[i].FeatureCriterion.b = tasks[i + 1].FeatureCriterion.a
          /\ ~IsInf(tasks[i].FeatureCriterion.b)
          /\ i > 1 => tasks[i].FeatureCriterion.a < tasks[i].FeatureCriterion.b

\* C33: a partition NewContinuousPartition returns consists of tasks with
\* continuous criteria in ascending order that tile the numbers (the first
\* from minus infinity, each up to where the next begins, the last up to
\* plus infinity), every threshold being the midpoint of two adjacent
\* values the dataset has for the feature, and after them a single task
\* with the undefined criterion
C33_ContinuousPartition ==
    (partCall.op = "NewContinuousPartition" /\ ~partCall.result.nil) =>
        LET tasks == partCall.result.Tasks
            ranges == SubSeq(tasks, 1, Len(tasks) - 1)
        IN  /\ TilesTheRange(ranges)
            /\ \A i \in 1..(Len(ranges) - 1) :
                  MidpointOfAdjacent(ranges[i].FeatureCriterion.b,
                                     NumericValues(pin.s, ContinuousF))
            /\ tasks[Len(tasks)] =
                  PartitionTask(NewUndefinedCriterion(ContinuousF), pin.s)

\* C34: NewContinuousPartition returns no partition for a dataset with
\* fewer than 2 distinct numeric values of the feature, whether or not
\* samples lack a value for it, and the thresholds of a partition it
\* returns are formed from numeric values the dataset has
C34_NumericValuesOnly ==
    partCall.op = "NewContinuousPartition" =>
        /\ Cardinality(NumericValues(pin.s, ContinuousF)) < 2
              => partCall.result.nil
        /\ \A i \in 1..Len(partCall.result.Tasks) :
              LET fc == partCall.result.Tasks[i].FeatureCriterion
              IN  (fc.kind = "continuous" /\ ~IsInf(fc.b)) =>
                      \E u, v \in NumericValues(pin.s, ContinuousF) :
                          2 * fc.b = u + v

====
